---- MODULE Spec2Model ----
(***************************************************************************)
(* Model of the research source processing pipeline of NoobBook:           *)
(* backend/app/services/source_services/source_processing/                 *)
(* research_processor.py (process_research and its helpers), run by        *)
(* several workers against a shared source store and processed-text files. *)
(*                                                                         *)
(* Texts are sequences of tokens; Python dicts are records whose DOMAIN is *)
(* the set of keys present; timestamps are left out.                       *)
(***************************************************************************)
EXTENDS Integers, Sequences, FiniteSets, TLC

\* ---------------------------------------------------------------- bounds
\* Number of process_research executions that may be in flight at once.
NumWorkers == 2
\* Number of sources of the project.
NumSources == 2
\* Total number of processing attempts started in one behaviour.
MaxAttempts == 2

Workers == 1..NumWorkers
Sources == 1..NumSources

\* ------------------------------------------------------- values and dicts
\* Python's None, for dict-valued variables.
None == [none |-> TRUE]
\* Python's empty dict {}.
EmptyDict == << >>

\* dict.get(key, default)
Get(d, k, default) == IF k \in DOMAIN d THEN d[k] ELSE default

\* Python truthiness of a dict-or-None value.
Truthy(d) == d # None /\ d # EmptyDict

\* Texts the collaborators can produce.
EmptyText == << >>
AgentText == <<"A">>
DraftText == <<"D">>
FinalText == <<"F">>

\* A processed-text file: absent, or present with a text.
NoFile == [exists |-> FALSE, text |-> EmptyText]
FileOf(t) == [exists |-> TRUE, text |-> t]

\* The research request stored in the raw .research file of a source.
Topic == "T"
Description == "focus"
Links == <<"https://a.com">>
RequestOf(p) ==
    IF p = "absent"
    THEN [topic |-> Topic, description |-> Description, links |-> Links]
    ELSE [topic |-> Topic, description |-> Description, links |-> Links, provider |-> p]
RequestProviders == {"absent", "perplexity"}

\* source.get("name", topic): the record handed to process_research has a name.
SourceName(s) == "research"

\* ------------------------------------------------------------ exceptions
ErrResearchFailed == "Research failed"
ErrNoOutputFile == "Research agent did not create output file"
ErrEmptyContent == "Research agent wrote empty content"
ErrPerplexityFailed == "Perplexity research failed"
ErrCrossCheckFailed == "Cross-check failed"
ProcessorName == "research_processor"
\* str(e) of what the collaborators and the file system raise.
MsgAgentRaised == "agent raised"
MsgCrossCheckRaised == "crosscheck raised"
MsgWriteFailed == "cannot write processed file"
MsgStoreRaised == "update_source raised"
MsgNeedsEmbeddingRaised == "needs_embedding raised"
MsgEmbeddingRaised == "embedding service raised"
\* perplexity_service.py: the messages of _get_api_key and research.
ErrNoApiKey ==
    "PERPLEXITY_API_KEY not found in environment. Please configure it in App Settings."
ErrPerplexityEmpty == "Perplexity returned empty content"
ErrPerplexityTimeout == "Perplexity API request timed out (>2 minutes)"
ErrPerplexityInvalidKey == "Invalid Perplexity API key"
ErrPerplexityRateLimit == "Perplexity API rate limit exceeded"
\* str(e) of what requests and the response's decoding raise.
MsgNotJson == "Expecting value: line 1 column 1 (char 0)"
MsgConnection == "connection refused"
MsgNoGet == "'list' object has no attribute 'get'"
MsgNoLen == "object of type 'NoneType' has no len()"

\* ------------------------------------------------------- pure utilities
\* app.utils.embedding_utils.count_tokens: one token per text element.
count_tokens(text) == Len(text)

\* len(str)
CharLen(text) == Len(text)

\* app.utils.text.build_processed_output: header block (source type, name)
\* followed by the body of the single page.
build_processed_output(pages, source_type, source_name, metadata) ==
    <<source_type, source_name>> \o pages[1]

\* The body of an enveloped document (what follows the header block).
EnvelopeBody(doc) == SubSeq(doc, 3, Len(doc))

\* -------------------------------------------------------- the source store
DictFields == {"processing_info", "embedding_info", "summary_info"}

\* A source as created by the ingestion API.
NewSource ==
    [status |-> "uploaded", active |-> FALSE, processing_info |-> None,
     embedding_info |-> None, summary_info |-> None]

\* source_service.update_source(project_id, source_id, **kw): partial-field
\* update; a keyword that is not given, or given as None, leaves the field.
UpdateSource(rec, kw) ==
    [k \in DOMAIN rec |->
        IF k \in DOMAIN kw
        THEN IF k \in DictFields /\ kw[k] = None THEN rec[k] ELSE kw[k]
        ELSE rec[k]]

\* ------------------------------------------- the Perplexity service
\* os.getenv('PERPLEXITY_API_KEY'): unset, set to the empty string, or a key.
NoneKey == "None"
ApiKeys == {"pplx-1", "pplx-2"}
EnvValues == {NoneKey, ""} \cup ApiKeys

\* PerplexityService.__init__ (lines 31-33): no key cached yet.
PerplexityService == [api_key |-> NoneKey]

\* No call of research was made yet.
NoAnswer ==
    [called |-> FALSE, absent |-> FALSE, requested |-> FALSE,
     raised |-> "", value |-> None]

\* A call returns a value, or raises an exception of a class, with its
\* str() and, for an HTTPError, the status code of the response.
Return(value) == [raises |-> "", value |-> value]

\* _get_api_key (lines 35-53): the key cached in the service if there is
\* one, else the key of the environment, which is then cached; ValueError
\* when there is neither. Gives the service as the call leaves it.
get_api_key(self, env) ==
    IF self.api_key = NoneKey
    THEN IF env = NoneKey \/ env = ""
         THEN [raises |-> "ValueError", msg |-> ErrNoApiKey, self |-> self]
         ELSE [raises |-> "", value |-> env, self |-> [self EXCEPT !.api_key = env]]
    ELSE [raises |-> "", value |-> self.api_key, self |-> self]

\* The bodies a 200 response may carry once decoded: not an object, an
\* object without choices or with none, a choice without message or with
\* an empty content, a content without citations and usage, citations
\* given as null, and a full answer.
Bodies ==
    {"list", "object", "no choice", "no message", "no content", "content",
     "null citations", "full"}
NotADict == [list |-> TRUE]
JsonNull == <<"null">>
Choice(content) == <<[message |-> [content |-> content]]>>
Citations == <<"https://c.org">>
Usage == [total_tokens |-> 1]
Decoded(body) ==
    CASE body = "list" -> NotADict
      [] body = "object" -> EmptyDict
      [] body = "no choice" -> [choices |-> << >>]
      [] body = "no message" -> [choices |-> <<EmptyDict>>]
      [] body = "no content" -> [choices |-> Choice(EmptyText)]
      [] body = "content" -> [choices |-> Choice(DraftText)]
      [] body = "null citations" ->
            [choices |-> Choice(DraftText), citations |-> JsonNull, usage |-> Usage]
      [] body = "full" ->
            [choices |-> Choice(DraftText), citations |-> Citations, usage |-> Usage]

\* What requests.post, raise_for_status and response.json come to (lines
\* 120-128): a timeout, a failed connection, an error status, a body that
\* is not JSON, or a body that decodes.
HttpStatuses == {401, 429, 500}
Raise(class, msg) == [raises |-> class, msg |-> msg, status_code |-> 0, body |-> ""]
HttpOutcomes ==
    {Raise("Timeout", "timed out"), Raise("ConnectionError", MsgConnection),
     Raise("ValueError", MsgNotJson)}
    \cup {[Raise("HTTPError", "error status") EXCEPT !.status_code = c] :
                c \in HttpStatuses}
    \cup {[Raise("", "") EXCEPT !.body = b] : b \in Bodies}

\* Lines 130-154: the content of the first choice, the citations and the
\* usage of the decoded body; empty content is a failure. data.get on a
\* body that is not an object, and len() of null citations, raise.
ExtractAnswer(data) ==
    LET content ==
            IF "choices" \in DOMAIN data /\ Len(data.choices) > 0
            THEN Get(Get(data.choices[1], "message", EmptyDict), "content", EmptyText)
            ELSE EmptyText
        citations == Get(data, "citations", << >>)
    IN IF "list" \in DOMAIN data THEN Raise("AttributeError", MsgNoGet)
       ELSE IF content = EmptyText
       THEN Return([success |-> FALSE, error |-> ErrPerplexityEmpty])
       ELSE IF citations = JsonNull THEN Raise("TypeError", MsgNoLen)
       ELSE Return([success |-> TRUE, content |-> content,
                    citations |-> citations,
                    usage |-> Get(data, "usage", EmptyDict)])

\* Lines 86-154, the try block of research: the key, the request, the
\* answer's extraction.
ResearchBody(got, out) ==
    IF got.raises # "" THEN Raise(got.raises, got.msg)
    ELSE IF out.raises # "" THEN out
    ELSE ExtractAnswer(Decoded(out.body))

\* A variant of ResearchHandlers: only the named exception classes are
\* handled, any other exception leaves research.
ResearchHandlersNamedOnly(body) ==
    IF body.raises = "" THEN body
    ELSE IF body.raises = "ValueError"
    THEN Return([success |-> FALSE, error |-> body.msg])
    ELSE IF body.raises = "Timeout"
    THEN Return([success |-> FALSE, error |-> ErrPerplexityTimeout])
    ELSE IF body.raises = "HTTPError"
    THEN Return([success |-> FALSE, error |->
            IF body.status_code = 401 THEN ErrPerplexityInvalidKey
            ELSE IF body.status_code = 429 THEN ErrPerplexityRateLimit
            ELSE "Perplexity API error: " \o ToString(body.status_code)])
    ELSE body

\* Lines 156-182, the except clauses of research in their order:
\* ValueError, Timeout, HTTPError, then any Exception.
ResearchHandlers(body) ==
    IF body.raises = "" THEN body
    ELSE IF body.raises = "ValueError"
    THEN Return([success |-> FALSE, error |-> body.msg])
    ELSE IF body.raises = "Timeout"
    THEN Return([success |-> FALSE, error |-> ErrPerplexityTimeout])
    ELSE IF body.raises = "HTTPError"
    THEN Return([success |-> FALSE, error |->
            IF body.status_code = 401 THEN ErrPerplexityInvalidKey
            ELSE IF body.status_code = 429 THEN ErrPerplexityRateLimit
            ELSE "Perplexity API error: " \o ToString(body.status_code)])
    ELSE Return([success |-> FALSE, error |-> "Research failed: " \o body.msg])

\* ------------------------------------------------ the ingestion API
\* The body of a POST as request.get_json() meets it: a request whose
\* content type is not JSON, an empty body sent as JSON, the JSON values
\* null and array, and an object.
BodyKinds == {"not json", "empty", "null", "array", "object"}

\* request.get_json(): the decoded body; BadRequest when the body does not
\* parse; for a content type that is not JSON, None or UnsupportedMediaType,
\* depending on the Flask release.
get_json(kind, data) ==
    CASE kind = "not json" ->
            {Return(None), Raise("UnsupportedMediaType", "415 Unsupported Media Type")}
      [] kind = "empty" -> {Raise("BadRequest", "400 Bad Request")}
      [] kind = "null" -> {Return(None)}
      [] kind = "array" -> {Return(NotADict)}
      [] kind = "object" -> {Return(data)}

\* The fields each endpoint reads, the required ones in the order of their
\* checks, with the message of each check.
Endpoints == {"url", "text", "research"}
RequiredFields(endpoint) ==
    CASE endpoint = "url" -> <<"url">>
      [] endpoint = "text" -> <<"content", "name">>
      [] endpoint = "research" -> <<"topic", "description">>
OptionalFields(endpoint) ==
    CASE endpoint = "url" -> {"name", "description"}
      [] endpoint = "text" -> {"description"}
      [] endpoint = "research" -> {"links", "provider"}
RequiredMessage(field) ==
    CASE field = "url" -> "URL is required"
      [] field = "content" -> "Content is required"
      [] field = "name" -> "Name is required"
      [] field = "topic" -> "Topic is required"
      [] field = "description" -> "Description is required"
Range(seq) == {seq[i] : i \in 1..Len(seq)}
Fields(endpoint) == Range(RequiredFields(endpoint)) \cup OptionalFields(endpoint)

\* source_service.add_url_source, add_text_source, add_research_source: the
\* source is created, or the service raises ValueError or another exception.
AddOutcomes == {"created", "ValueError", "Exception"}

\* No request was answered yet.
NoResponse == [endpoint |-> "", status |-> 0, error |-> "", lacking |-> FALSE,
               complete |-> FALSE, provider |-> "",
               called |-> FALSE]

\* The body of the three endpoints (lines 73-114, 147-196, 230-281): what
\* the request is answered with, and whether add_*_source was called.
\* "if not data", then data.get per required field in order, then the
\* call; ValueError is answered 400 and any other exception 500.
Answer(endpoint, got, outcome) ==
    LET data == got.value
        missing == {i \in 1..Len(RequiredFields(endpoint)) :
                        Get(data, RequiredFields(endpoint)[i], "") = ""}
        first == CHOOSE i \in missing : \A j \in missing : i <= j
    IN IF got.raises # ""
       THEN [status |-> IF got.raises = "ValueError" THEN 400 ELSE 500,
             error |-> got.msg, called |-> FALSE]
       ELSE IF ~Truthy(data)
       THEN [status |-> 400, error |-> "No data provided", called |-> FALSE]
       ELSE IF "list" \in DOMAIN data
       THEN [status |-> 500, error |-> MsgNoGet, called |-> FALSE]
       ELSE IF missing # {}
       THEN [status |-> 400, error |-> RequiredMessage(RequiredFields(endpoint)[first]),
             called |-> FALSE]
       ELSE [status |-> CASE outcome = "created" -> 201
                          [] outcome = "ValueError" -> 400
                          [] OTHER -> 500,
             error |-> IF outcome = "created" THEN "" ELSE outcome,
             called |-> TRUE]

\* ------------------------------------------------- the settings API
\* Some of the ids of API_KEYS_CONFIG (lines 50-131).
KeyIds == {"ANTHROPIC_API_KEY", "PINECONE_API_KEY", "PINECONE_INDEX_NAME",
           "PINECONE_REGION"}
PineconeConfig == {"PINECONE_INDEX_NAME", "PINECONE_REGION"}

AtMostOne(S) == {{}} \cup {{x} : x \in S}

\* str.startswith
StartsWith(value, prefix) ==
    Len(value) >= Len(prefix) /\ SubSeq(value, 1, Len(prefix)) = prefix

\* EnvService.mask_key as the module documents it (lines 7-10, 153): the
\* first and the last few characters of the value, "sk-a...xyz".
mask_key(value) ==
    SubSeq(value, 1, 4) \o "..." \o SubSeq(value, Len(value) - 2, Len(value))

\* EnvService.get_key gives None for a key that is not set.
IsSet(value) == value # NoneKey /\ value # ""

\* get_api_keys (lines 160-173): the value shown for each key.
MaskedValues(keys) ==
    [k \in KeyIds |-> IF IsSet(keys[k]) THEN mask_key(keys[k]) ELSE ""]

\* update_api_keys (line 232): the values that are saved with set_key.
Saves(value) == value # "" /\ ~StartsWith(value, "***")

\* delete_api_key (lines 283-289): the keys deleted with the key named.
Deleted(key_id) ==
    IF key_id = "PINECONE_API_KEY" THEN {key_id} \cup PineconeConfig ELSE {key_id}

\* validation_service.validate_pinecone_key(value): the key is valid or not,
\* and the details of the index may come with it.
IndexDetails == [index_name |-> "noobbook-index", region |-> "us-east-1"]
PineconeOutcomes ==
    {[is_valid |-> TRUE, message |-> "Valid Pinecone API key", index_details |-> IndexDetails],
     [is_valid |-> TRUE, message |-> "Valid Pinecone API key", index_details |-> None],
     [is_valid |-> FALSE, message |-> "Invalid Pinecone API key", index_details |-> None]}

\* Nothing loaded, posted or validated yet.
NoForm == [loaded |-> FALSE, values |-> [k \in KeyIds |-> ""]]
NoUpdate == [status |-> 0, saved |-> {}, changed |-> {}]
NoReply == [status |-> 0, valid |-> FALSE, message |-> ""]

\* ------------------------------------------------- the start script
\* The two child processes of start.py, in the order main starts them.
Children == {"backend", "frontend"}

\* A child process: whether it was spawned and is still running, whether
\* main's local variable for it (backend_process, frontend_process) is
\* assigned, and whether terminate() was called on it.
NoChild == [state |-> "none", bound |-> FALSE, asked |-> FALSE]

\* start.py before main has run: where main is, how it ended, whether the
\* pid file was written, its children.
NotLaunched == [pc |-> "checks", exit |-> "", pid_file |-> FALSE,
                child |-> [c \in Children |-> NoChild]]

\* ------------------------------------------------------------------ state
VARIABLES
    sources,     \* the persisted source records, by source id
    processed,   \* the processed-text file of each source
    raw,         \* the research request file of each source
    pc,          \* where each worker is in process_research
    frame,       \* the local variables of each worker's execution
    calls,       \* what each worker's current attempt has done so far
    started,     \* number of attempts started
    latest,      \* the number of the attempt last started on each source
    environ,     \* os.environ's PERPLEXITY_API_KEY
    service,     \* the perplexity_service singleton
    http,        \* number of requests posted to the Perplexity API
    answer,      \* the last call of PerplexityService.research
    response,    \* the last answer of the source ingestion API
    added,       \* the calls of source_service.add_*_source made so far
    env,         \* the keys EnvService holds, by key id
    form,        \* the values the frontend got from GET /settings/api-keys
    last_update, \* what the last POST /settings/api-keys did
    reply,       \* the last answer of POST /settings/api-keys/validate
    launcher,    \* start.py's main and the child processes it started
    validated    \* the calls of validate_perplexity_key made so far

\* The state of the research pipeline, and the state around it.
pipeline == <<sources, processed, raw, pc, frame, calls, started, latest>>
settings == <<env, form, last_update, reply>>
scripts == <<launcher, validated>>
aux == <<environ, service, http, answer, response, added, settings, scripts>>
vars == <<pipeline, aux>>

\* The locals of process_research before anything was assigned, with what
\* identifies the attempt: its source, its number, whether another attempt
\* on the source was in flight when it started, and the source's status and
\* file at that moment.
InitFrame ==
    [source_id |-> 0, attempt |-> 0, concurrent |-> FALSE,
     start_status |-> "", start_file |-> NoFile, provider |-> "",
     perplexity_result |-> None, crosscheck_args |-> None,
     crosscheck_result |-> None,
     research_result |-> None, research_content |-> EmptyText,
     segments_written |-> 0, iterations |-> 0, e |-> "",
     metadata |-> None, processed_content |-> EmptyText, processing_info |-> None,
     embedding_info |-> None, summary_info |-> None,
     result |-> None, raised |-> ""]

Init ==
    /\ sources = [s \in Sources |-> NewSource]
    /\ processed = [s \in Sources |-> NoFile]
    /\ raw \in [Sources -> {RequestOf(p) : p \in RequestProviders}]
    /\ pc = [w \in Workers |-> "idle"]
    /\ frame = [w \in Workers |-> InitFrame]
    /\ calls = [w \in Workers |-> << >>]
    /\ started = 0
    /\ latest = [s \in Sources |-> 0]
    /\ environ = NoneKey
    /\ service = PerplexityService
    /\ http = 0
    /\ answer = NoAnswer
    /\ response = NoResponse
    /\ added = << >>
    /\ env = [k \in KeyIds |-> NoneKey]
    /\ form = NoForm
    /\ last_update = NoUpdate
    /\ reply = NoReply
    /\ launcher = NotLaunched
    /\ validated = << >>

\* What is left of a frame once process_research is over: the attempt's
\* identity, what the strategy reported and what the caller receives; the
\* other locals are gone.
Unwound(f, result, raised) ==
    [InitFrame EXCEPT !.source_id = f.source_id, !.attempt = f.attempt,
                      !.concurrent = f.concurrent,
                      !.start_status = f.start_status,
                      !.start_file = f.start_file, !.provider = f.provider,
                      !.research_result = f.research_result,
                      !.result = result, !.raised = raised]

\* An exception leaves process_research: the frame is unwound to the caller.
Escape(w, msg) ==
    /\ pc' = [pc EXCEPT ![w] = "raised"]
    /\ frame' = [frame EXCEPT ![w] = Unwound(@, None, msg)]

\* An exception raised inside the try block of process_research (line 72).
Caught(w, msg) ==
    /\ pc' = [pc EXCEPT ![w] = "handler"]
    /\ frame' = [frame EXCEPT ![w].e = msg]

\* One entry of an attempt's record: the operation, and what came of it as
\* seen from outside the code ("ok", the kind of text written or found,
\* "raised", or the error message a collaborator gave; "" when it gave none).
Ev(op, out) == [op |-> op, out |-> out]

Log(w, evs) == calls' = [calls EXCEPT ![w] = @ \o evs]

\* A worker is inside process_research.
InFlight(w) == pc[w] \notin {"idle", "returned", "raised"}

\* How a text looks: empty, an enveloped document, or plain text.
IsEnvelope(doc) == Len(doc) >= 2 /\ doc[1] = "RESEARCH"
KindOf(text) ==
    IF text = EmptyText THEN "empty"
    ELSE IF IsEnvelope(text) THEN "envelope" ELSE "text"
FileKind(file) == IF file.exists THEN KindOf(file.text) ELSE "no file"

\* ---------------------------------------------------------------- actions
\* The dispatch layer calls process_research(project_id, source_id, ...).
\* Nothing in process_research looks at the source's status or at other
\* executions first. Workers are interchangeable: the first free one runs.
Start(w, s) ==
    /\ pc[w] = "idle"
    /\ \A v \in Workers : v < w => pc[v] # "idle"
    /\ started < MaxAttempts
    /\ started' = started + 1
    /\ latest' = [latest EXCEPT ![s] = started + 1]
    /\ pc' = [pc EXCEPT ![w] = "load"]
    /\ frame' = [frame EXCEPT ![w] =
                    [InitFrame EXCEPT
                        !.source_id = s, !.attempt = started + 1,
                        !.concurrent = \E v \in Workers \ {w} :
                            InFlight(v) /\ frame[v].source_id = s,
                        !.start_status = sources[s].status,
                        !.start_file = processed[s]]]
    /\ calls' = [calls EXCEPT ![w] = << >>]
    /\ UNCHANGED <<sources, processed, raw, aux>>

\* A variant of Route: every request takes the Claude branch.
RouteAlwaysClaude(provider) == "claude"

\* Line 74: the branch taken for a provider value.
Route(provider) == IF provider = "perplexity" THEN "draft" ELSE "claude"

\* Lines 53-74: open and parse the request file (outside any try block),
\* read its fields, route on the provider.
LoadRequest(w) ==
    /\ pc[w] = "load"
    /\ \E readable \in BOOLEAN :
        /\ Log(w, <<Ev("load", IF readable THEN "ok" ELSE "raised")>>)
        /\ IF readable
           THEN LET provider == Get(raw[frame[w].source_id], "provider", "claude")
                IN /\ frame' = [frame EXCEPT ![w].provider = provider]
                   /\ pc' = [pc EXCEPT ![w] = Route(provider)]
           ELSE Escape(w, "cannot load research request")
    /\ UNCHANGED <<sources, processed, raw, started, latest, aux>>

\* ------------------------------------------- collaborators' outcomes
\* Iteration counts the research agent may report.
AgentIterations == {1, 3}

\* deep_research_agent.research(..., output_path): it raises, or returns a
\* result dict, and may have written its findings to output_path itself.
AgentOutcomes ==
    {[raises |-> TRUE, result |-> None, writes |-> FALSE, text |-> EmptyText],
     [raises |-> FALSE, result |-> [success |-> FALSE, error |-> "agent error"],
      writes |-> FALSE, text |-> EmptyText],
     [raises |-> FALSE, result |-> [success |-> FALSE],
      writes |-> FALSE, text |-> EmptyText],
     [raises |-> FALSE,
      result |-> [success |-> TRUE, segments_written |-> 0, iterations |-> 1],
      writes |-> FALSE, text |-> EmptyText],
     [raises |-> FALSE,
      result |-> [success |-> TRUE, segments_written |-> 0, iterations |-> 1],
      writes |-> TRUE, text |-> EmptyText]}
    \cup
    {[raises |-> FALSE,
      result |-> [success |-> TRUE, segments_written |-> 1, iterations |-> i],
      writes |-> TRUE, text |-> AgentText] : i \in AgentIterations}

\* perplexity_service.research(topic, description, links): every exception
\* is caught inside; success carries a non-empty content.
PerplexityOutcomes ==
    {[success |-> TRUE, content |-> DraftText, citations |-> Citations,
      usage |-> Usage],
     [success |-> FALSE, error |-> ErrPerplexityEmpty],
     [success |-> FALSE, error |-> ErrNoApiKey]}

\* crosscheck_service.crosscheck_research(draft_content, ...): it raises, or
\* returns {success, content, usage, error?}.
CrossCheckOutcomes ==
    {[raises |-> TRUE, result |-> None],
     [raises |-> FALSE, result |-> [success |-> FALSE, error |-> "review error"]],
     [raises |-> FALSE, result |-> [success |-> FALSE]],
     [raises |-> FALSE,
      result |-> [success |-> TRUE, content |-> EmptyText, usage |-> [total_tokens |-> 1]]],
     [raises |-> FALSE,
      result |-> [success |-> TRUE, content |-> FinalText, usage |-> [total_tokens |-> 1]]]}

\* What a collaborator's result dict says, for the attempt's record.
Said(result) ==
    IF Get(result, "success", FALSE) THEN "ok" ELSE Get(result, "error", "")

\* Lines 83-92 and 251-287: the Claude branch, one opaque call to the agent,
\* which writes the processed path itself.
ResearchClaude(w) ==
    /\ pc[w] = "claude"
    /\ \E out \in AgentOutcomes :
        /\ Log(w, (IF out.writes THEN <<Ev("agent_write", KindOf(out.text))>> ELSE << >>)
                  \o <<Ev("agent", IF out.raises THEN "raised" ELSE Said(out.result))>>)
        /\ processed' = IF out.writes
                        THEN [processed EXCEPT ![frame[w].source_id] = FileOf(out.text)]
                        ELSE processed
        /\ IF out.raises
           THEN Caught(w, MsgAgentRaised)
           ELSE /\ frame' = [frame EXCEPT ![w].research_result = out.result]
                /\ pc' = [pc EXCEPT ![w] = "check"]
    /\ UNCHANGED <<sources, raw, started, latest, aux>>

\* A variant of DraftError: the draft's failure is not looked at.
DraftErrorIgnored(perplexity_result) == ""

\* Lines 328-330: what _research_with_perplexity raises after the draft
\* call ("" when it goes on).
DraftError(perplexity_result) ==
    IF ~Get(perplexity_result, "success", FALSE)
    THEN Get(perplexity_result, "error", ErrPerplexityFailed)
    ELSE ""

\* Lines 319-336: the Perplexity branch, step 1, the draft.
PerplexityDraft(w) ==
    /\ pc[w] = "draft"
    /\ \E perplexity_result \in PerplexityOutcomes :
        /\ Log(w, <<Ev("draft", Said(perplexity_result))>>)
        /\ IF DraftError(perplexity_result) # ""
           THEN Caught(w, DraftError(perplexity_result))
           ELSE /\ frame' = [frame EXCEPT ![w].perplexity_result = perplexity_result]
                /\ pc' = [pc EXCEPT ![w] = "crosscheck"]
    /\ UNCHANGED <<sources, processed, raw, started, latest, aux>>

\* Lines 350-352: what _research_with_perplexity raises after the
\* cross-check call ("" when it goes on).
CrossCheckError(crosscheck_result) ==
    IF ~Get(crosscheck_result, "success", FALSE)
    THEN Get(crosscheck_result, "error", ErrCrossCheckFailed)
    ELSE ""

\* A variant of CrossCheckArgs: the request's links are passed as the
\* citations.
CrossCheckArgsLinksAsCitations(perplexity_result) ==
    [draft_content |-> Get(perplexity_result, "content", EmptyText),
     topic |-> Topic, description |-> Description, links |-> Links,
     citations |-> Links]

\* Lines 332-348: the keyword arguments of the cross-check call (project_id
\* aside).
CrossCheckArgs(perplexity_result) ==
    [draft_content |-> Get(perplexity_result, "content", EmptyText),
     topic |-> Topic, description |-> Description, links |-> Links,
     citations |-> Get(perplexity_result, "citations", << >>)]

\* Lines 338-357: step 2, the cross-check of the draft.
CrossCheck(w) ==
    /\ pc[w] = "crosscheck"
    /\ \E out \in CrossCheckOutcomes :
        LET error == IF out.raises THEN MsgCrossCheckRaised
                     ELSE CrossCheckError(out.result)
            called == [frame[w] EXCEPT
                        !.crosscheck_args = CrossCheckArgs(frame[w].perplexity_result)]
        IN /\ Log(w, <<Ev("crosscheck", IF out.raises THEN "raised" ELSE Said(out.result))>>)
           /\ IF error # ""
              THEN /\ pc' = [pc EXCEPT ![w] = "handler"]
                   /\ frame' = [frame EXCEPT ![w] = [called EXCEPT !.e = error]]
              ELSE /\ frame' = [frame EXCEPT ![w] =
                                  [called EXCEPT !.crosscheck_result = out.result]]
                   /\ pc' = [pc EXCEPT ![w] = "write_final"]
    /\ UNCHANGED <<sources, processed, raw, started, latest, aux>>

\* A variant of PerplexityResult: the branch reports one pass.
PerplexityResultOnePass(perplexity_result, crosscheck_result) ==
    [success |-> TRUE, output_path |-> "processed_path",
     segments_written |-> 1, iterations |-> 1,
     usage |-> [perplexity |-> Get(perplexity_result, "usage", EmptyDict),
                claude |-> Get(crosscheck_result, "usage", EmptyDict)],
     citations |-> Get(perplexity_result, "citations", << >>)]

\* What _research_with_perplexity returns (lines 363-374).
PerplexityResult(perplexity_result, crosscheck_result) ==
    [success |-> TRUE, output_path |-> "processed_path",
     segments_written |-> 1, iterations |-> 2,
     usage |-> [perplexity |-> Get(perplexity_result, "usage", EmptyDict),
                claude |-> Get(crosscheck_result, "usage", EmptyDict)],
     citations |-> Get(perplexity_result, "citations", << >>)]

\* A variant of PerplexityWrites: the draft is written, not the cross-checked content.
PerplexityWritesDraft(perplexity_result, crosscheck_result) ==
    Get(perplexity_result, "content", EmptyText)

\* What _research_with_perplexity writes to the processed path (lines 354-361).
PerplexityWrites(perplexity_result, crosscheck_result) ==
    Get(crosscheck_result, "content", EmptyText)

\* Lines 359-374: write the cross-checked content, return the result. The
\* write can fail, leaving the file as it was or truncated by open(..., "w").
WriteFinal(w) ==
    /\ pc[w] = "write_final"
    /\ LET s == frame[w].source_id
           final_content == PerplexityWrites(frame[w].perplexity_result,
                                             frame[w].crosscheck_result)
       IN
       \/ /\ processed' = [processed EXCEPT ![s] = FileOf(final_content)]
          /\ Log(w, <<Ev("write_final", KindOf(final_content))>>)
          /\ frame' = [frame EXCEPT ![w].research_result =
                PerplexityResult(frame[w].perplexity_result,
                                 frame[w].crosscheck_result)]
          /\ pc' = [pc EXCEPT ![w] = "check"]
       \/ /\ \E truncated \in BOOLEAN :
                processed' = IF truncated
                             THEN [processed EXCEPT ![s] = FileOf(EmptyText)]
                             ELSE processed
          /\ Log(w, <<Ev("write_final", "raised")>>)
          /\ Caught(w, MsgWriteFailed)
    /\ UNCHANGED <<sources, raw, started, latest, aux>>

\* A variant of CheckError: an empty file is taken as the research content.
CheckErrorAcceptsEmpty(research_result, file) ==
    IF ~Get(research_result, "success", FALSE)
    THEN Get(research_result, "error", ErrResearchFailed)
    ELSE IF ~file.exists THEN ErrNoOutputFile
    ELSE ""

\* Lines 94-105: what process_research raises on the strategy's result and
\* on the file found at the processed path ("" when it goes on).
CheckError(research_result, file) ==
    IF ~Get(research_result, "success", FALSE)
    THEN Get(research_result, "error", ErrResearchFailed)
    ELSE IF ~file.exists THEN ErrNoOutputFile
    ELSE IF file.text = EmptyText THEN ErrEmptyContent
    ELSE ""

\* Lines 94-109: check the strategy's result and read back what it wrote.
CheckResult(w) ==
    /\ pc[w] = "check"
    /\ LET s == frame[w].source_id
           research_result == frame[w].research_result
       IN /\ Log(w, <<Ev("check", FileKind(processed[s]))>>)
          /\ IF CheckError(research_result, processed[s]) # ""
             THEN Caught(w, CheckError(research_result, processed[s]))
             ELSE /\ frame' = [frame EXCEPT
                    ![w].research_content = processed[s].text,
                    ![w].segments_written = Get(research_result, "segments_written", 0),
                    ![w].iterations = Get(research_result, "iterations", 0)]
                  /\ pc' = [pc EXCEPT ![w] = "build"]
    /\ UNCHANGED <<sources, processed, raw, started, latest, aux>>

\* A variant of ErrorUpdate: the failure is recorded, the status is left.
ErrorUpdateKeepsStatus(e) ==
    [processing_info |-> [error |-> e, processor |-> ProcessorName]]

\* A variant of ErrorUpdate: the failure's message is lost.
ErrorUpdateWithoutMessage(e) ==
    [status |-> "error",
     processing_info |-> [error |-> ErrResearchFailed, processor |-> ProcessorName]]

\* The update issued by the except block (lines 113-121).
ErrorUpdate(e) ==
    [status |-> "error",
     processing_info |-> [error |-> e, processor |-> ProcessorName]]

\* A variant of HandleError: the error update goes to the project's first
\* source, whichever source the attempt is for.
HandleErrorOnFirstSource(w) ==
    /\ pc[w] = "handler"
    /\ \/ /\ sources' = [sources EXCEPT ![1] = UpdateSource(@, ErrorUpdate(frame[w].e))]
          /\ Log(w, <<Ev("update_error", "ok")>>)
          /\ frame' = [frame EXCEPT ![w] =
                          Unwound(@, [success |-> FALSE, error |-> frame[w].e], "")]
          /\ pc' = [pc EXCEPT ![w] = "returned"]
       \/ /\ Escape(w, MsgStoreRaised)
          /\ Log(w, <<Ev("update_error", "raised")>>)
          /\ UNCHANGED sources
    /\ UNCHANGED <<processed, raw, started, latest, aux>>

\* Lines 111-122: the except block converts the failure to a status update.
\* The update is itself outside any try block.
HandleError(w) ==
    /\ pc[w] = "handler"
    /\ LET s == frame[w].source_id IN
       \/ /\ sources' = [sources EXCEPT ![s] = UpdateSource(@, ErrorUpdate(frame[w].e))]
          /\ Log(w, <<Ev("update_error", "ok")>>)
          /\ frame' = [frame EXCEPT ![w] =
                          Unwound(@, [success |-> FALSE, error |-> frame[w].e], "")]
          /\ pc' = [pc EXCEPT ![w] = "returned"]
       \/ /\ Escape(w, MsgStoreRaised)
          /\ Log(w, <<Ev("update_error", "raised")>>)
          /\ UNCHANGED sources
    /\ UNCHANGED <<processed, raw, started, latest, aux>>

\* The metadata handed to the envelope builder (lines 128-133).
Metadata(research_content) ==
    [topic |-> Topic, link_count |-> Len(Links),
     character_count |-> CharLen(research_content),
     token_count |-> count_tokens(research_content)]

\* Lines 124-142: count the tokens, build the enveloped document. Neither
\* call is inside a try block.
BuildOutput(w) ==
    /\ pc[w] = "build"
    /\ \E fails \in BOOLEAN :
        /\ Log(w, <<Ev("build", IF fails THEN "raised" ELSE "ok")>>)
        /\ IF fails
           THEN Escape(w, "count_tokens or build_processed_output raised")
           ELSE /\ frame' = [frame EXCEPT
                    ![w].metadata = Metadata(frame[w].research_content),
                    ![w].processed_content =
                        build_processed_output(<<frame[w].research_content>>,
                            "RESEARCH", SourceName(frame[w].source_id),
                            Metadata(frame[w].research_content))]
                /\ pc' = [pc EXCEPT ![w] = "save"]
    /\ UNCHANGED <<sources, processed, raw, started, latest, aux>>

\* A variant of ProcessingInfo: the two counts the agent reports change places.
ProcessingInfoSwapped(research_content, segments_written, iterations) ==
    [processor |-> ProcessorName, topic |-> Topic, link_count |-> Len(Links),
     character_count |-> CharLen(research_content),
     token_count |-> count_tokens(research_content),
     total_pages |-> 1, segments_written |-> iterations,
     iterations |-> segments_written]

\* The processing_info of a successful attempt (lines 148-158).
ProcessingInfo(research_content, segments_written, iterations) ==
    [processor |-> ProcessorName, topic |-> Topic, link_count |-> Len(Links),
     character_count |-> CharLen(research_content),
     token_count |-> count_tokens(research_content),
     total_pages |-> 1, segments_written |-> segments_written,
     iterations |-> iterations]

\* Lines 144-158: save the enveloped document over the processed path
\* (outside any try block). The write can fail, leaving the file as it was
\* or truncated by open(..., "w").
SaveProcessed(w) ==
    /\ pc[w] = "save"
    /\ LET s == frame[w].source_id IN
       \/ /\ processed' = [processed EXCEPT ![s] = FileOf(frame[w].processed_content)]
          /\ Log(w, <<Ev("save", KindOf(frame[w].processed_content))>>)
          /\ frame' = [frame EXCEPT ![w].processing_info =
                ProcessingInfo(frame[w].research_content,
                               frame[w].segments_written, frame[w].iterations)]
          /\ pc' = [pc EXCEPT ![w] = "embedding"]
       \/ /\ \E truncated \in BOOLEAN :
                processed' = IF truncated
                             THEN [processed EXCEPT ![s] = FileOf(EmptyText)]
                             ELSE processed
          /\ Log(w, <<Ev("save", "raised")>>)
          /\ Escape(w, MsgWriteFailed)
    /\ UNCHANGED <<sources, raw, started, latest, aux>>

\* A variant of EmbeddingFallback: no reason is given.
EmbeddingFallbackNoReason(msg) ==
    [is_embedded |-> FALSE, token_count |-> 0, chunk_count |-> 0,
     reason |-> << >>]

\* The embedding_info _process_embeddings returns from its except block
\* (lines 218-226).
EmbeddingFallback(msg) ==
    [is_embedded |-> FALSE, token_count |-> 0, chunk_count |-> 0,
     reason |-> <<"Embedding error: ", msg>>]

\* What needs_embedding reports about a text, as the first element of the
\* tuple it returns (line 202).
NeedsEmbeddingVerdicts == {"needed", "not needed"}

\* A variant of StartEmbedding: the embedding service is called whether or
\* not the status update went through.
StartEmbeddingUnordered(w) ==
    /\ pc[w] = "embedding"
    /\ LET s == frame[w].source_id IN
       \E updated \in BOOLEAN, verdict \in NeedsEmbeddingVerdicts :
          /\ sources' = IF updated
                        THEN [sources EXCEPT ![s] = UpdateSource(@, [status |-> "embedding"])]
                        ELSE sources
          /\ Log(w, <<Ev("needs_embedding", verdict),
                      Ev("update_embedding", IF updated THEN "ok" ELSE "raised")>>)
    /\ pc' = [pc EXCEPT ![w] = "embed"]
    /\ UNCHANGED <<frame, processed, raw, started, latest, aux>>

\* What the embedding service leaves for a text that needs no embedding.
NotNeededInfo ==
    [is_embedded |-> FALSE, token_count |-> 3, chunk_count |-> 0,
     reason |-> <<"no embedding needed">>]

\* A variant of StartEmbedding: the verdict of needs_embedding is heeded,
\* and a text that needs no embedding goes on to its summary with neither
\* the status update nor the embedding call.
StartEmbeddingIfNeeded(w) ==
    /\ pc[w] = "embedding"
    /\ LET s == frame[w].source_id IN
       \/ /\ sources' = [sources EXCEPT ![s] = UpdateSource(@, [status |-> "embedding"])]
          /\ Log(w, <<Ev("needs_embedding", "needed"), Ev("update_embedding", "ok")>>)
          /\ pc' = [pc EXCEPT ![w] = "embed"]
          /\ UNCHANGED frame
       \/ /\ frame' = [frame EXCEPT ![w].embedding_info = NotNeededInfo]
          /\ Log(w, <<Ev("needs_embedding", "not needed")>>)
          /\ pc' = [pc EXCEPT ![w] = "summary"]
          /\ UNCHANGED sources
       \/ /\ frame' = [frame EXCEPT ![w].embedding_info =
                          EmbeddingFallback(MsgNeedsEmbeddingRaised)]
          /\ Log(w, <<Ev("needs_embedding", "raised")>>)
          /\ pc' = [pc EXCEPT ![w] = "summary"]
          /\ UNCHANGED sources
       \/ /\ frame' = [frame EXCEPT ![w].embedding_info =
                          EmbeddingFallback(MsgStoreRaised)]
          /\ Log(w, <<Ev("needs_embedding", "needed"), Ev("update_embedding", "raised")>>)
          /\ pc' = [pc EXCEPT ![w] = "summary"]
          /\ UNCHANGED sources
    /\ UNCHANGED <<processed, raw, started, latest, aux>>

\* Lines 200-206: needs_embedding, whose verdict is dropped (line 202),
\* then the status update to "embedding". Both are inside the try block of
\* _process_embeddings.
StartEmbedding(w) ==
    /\ pc[w] = "embedding"
    /\ LET s == frame[w].source_id IN
       \/ \E verdict \in NeedsEmbeddingVerdicts :
          /\ sources' = [sources EXCEPT ![s] = UpdateSource(@, [status |-> "embedding"])]
          /\ Log(w, <<Ev("needs_embedding", verdict), Ev("update_embedding", "ok")>>)
          /\ pc' = [pc EXCEPT ![w] = "embed"]
          /\ UNCHANGED frame
       \/ /\ frame' = [frame EXCEPT ![w].embedding_info =
                          EmbeddingFallback(MsgNeedsEmbeddingRaised)]
          /\ Log(w, <<Ev("needs_embedding", "raised")>>)
          /\ pc' = [pc EXCEPT ![w] = "summary"]
          /\ UNCHANGED sources
       \/ \E verdict \in NeedsEmbeddingVerdicts :
          /\ frame' = [frame EXCEPT ![w].embedding_info =
                          EmbeddingFallback(MsgStoreRaised)]
          /\ Log(w, <<Ev("needs_embedding", verdict), Ev("update_embedding", "raised")>>)
          /\ pc' = [pc EXCEPT ![w] = "summary"]
          /\ UNCHANGED sources
    /\ UNCHANGED <<processed, raw, started, latest, aux>>

\* embedding_service.process_embeddings(...): it raises, or returns an
\* embedding_info.
EmbeddingOutcomes ==
    {[raises |-> TRUE, info |-> None],
     [raises |-> FALSE,
      info |-> [is_embedded |-> TRUE, token_count |-> 3, chunk_count |-> 1,
                reason |-> <<"embedded">>]],
     [raises |-> FALSE,
      info |-> [is_embedded |-> FALSE, token_count |-> 3, chunk_count |-> 0,
                reason |-> <<"no embedding needed">>]]}

\* A variant of ProcessEmbeddingsResult: the captured error is not recorded.
ProcessEmbeddingsResultLosesError(out) ==
    IF out.raises THEN EmbeddingFallback("") ELSE out.info

\* Lines 208-226: what _process_embeddings returns once the status is set.
ProcessEmbeddingsResult(out) ==
    IF out.raises THEN EmbeddingFallback(MsgEmbeddingRaised) ELSE out.info

\* A variant of Embed: the final update follows the embedding call at once.
EmbedThenReady(w) ==
    /\ pc[w] = "embed"
    /\ \E out \in EmbeddingOutcomes :
        /\ frame' = [frame EXCEPT ![w].embedding_info = ProcessEmbeddingsResult(out)]
        /\ Log(w, <<Ev("embed", IF out.raises THEN "raised"
                               ELSE IF out.info.is_embedded THEN "embedded"
                               ELSE "not embedded")>>)
    /\ pc' = [pc EXCEPT ![w] = "final"]
    /\ UNCHANGED <<sources, processed, raw, started, latest, aux>>

\* Lines 208-226: the call to the embedding service, with its except block.
Embed(w) ==
    /\ pc[w] = "embed"
    /\ \E out \in EmbeddingOutcomes :
        /\ frame' = [frame EXCEPT ![w].embedding_info = ProcessEmbeddingsResult(out)]
        /\ Log(w, <<Ev("embed", IF out.raises THEN "raised"
                               ELSE IF out.info.is_embedded THEN "embedded"
                               ELSE "not embedded")>>)
    /\ pc' = [pc EXCEPT ![w] = "summary"]
    /\ UNCHANGED <<sources, processed, raw, started, latest, aux>>

\* summary_service.generate_summary(...): it raises, or returns a summary
\* dict, an empty dict or None.
SummaryOutcomes ==
    {[raises |-> TRUE, result |-> None],
     [raises |-> FALSE, result |-> None],
     [raises |-> FALSE, result |-> EmptyDict],
     [raises |-> FALSE, result |-> [summary |-> <<"S">>]]}

\* _generate_summary (lines 229-248).
GenerateSummaryResult(out) ==
    IF out.raises THEN EmptyDict
    ELSE IF Truthy(out.result) THEN out.result
    ELSE EmptyDict

\* Lines 169-171: the summary, generated after the embeddings.
GenerateSummary(w) ==
    /\ pc[w] = "summary"
    /\ \E out \in SummaryOutcomes :
        /\ frame' = [frame EXCEPT ![w].summary_info = GenerateSummaryResult(out)]
        /\ Log(w, <<Ev("summary", IF ~out.raises /\ Truthy(out.result)
                                 THEN "ok" ELSE "none")>>)
    /\ pc' = [pc EXCEPT ![w] = "final"]
    /\ UNCHANGED <<sources, processed, raw, started, latest, aux>>

\* A variant of ReadyUpdate: the final update puts the source back to
\* processing.
ReadyUpdateAsProcessing(processing_info, embedding_info, summary_info) ==
    [status |-> "processing", active |-> TRUE,
     processing_info |-> processing_info,
     embedding_info |-> embedding_info,
     summary_info |-> IF Truthy(summary_info) THEN summary_info ELSE None]

\* A variant of ReadyUpdate: a source without a summary is not made ready.
ReadyUpdateNeedsSummary(processing_info, embedding_info, summary_info) ==
    [status |-> IF Truthy(summary_info) THEN "ready" ELSE "error",
     active |-> Truthy(summary_info),
     processing_info |-> processing_info,
     embedding_info |-> embedding_info,
     summary_info |-> IF Truthy(summary_info) THEN summary_info ELSE None]

\* The final update (lines 173-181).
ReadyUpdate(processing_info, embedding_info, summary_info) ==
    [status |-> "ready", active |-> TRUE,
     processing_info |-> processing_info,
     embedding_info |-> embedding_info,
     summary_info |-> IF Truthy(summary_info) THEN summary_info ELSE None]

\* Lines 173-184: mark the source ready and return. The update is outside
\* any try block.
MarkReady(w) ==
    /\ pc[w] = "final"
    /\ LET s == frame[w].source_id IN
       \/ /\ sources' = [sources EXCEPT ![s] =
                UpdateSource(@, ReadyUpdate(frame[w].processing_info,
                    frame[w].embedding_info, frame[w].summary_info))]
          /\ Log(w, <<Ev("update_ready", "ok")>>)
          /\ frame' = [frame EXCEPT ![w] =
                          Unwound(@, [success |-> TRUE, status |-> "ready"], "")]
          /\ pc' = [pc EXCEPT ![w] = "returned"]
       \/ /\ Escape(w, MsgStoreRaised)
          /\ Log(w, <<Ev("update_ready", "raised")>>)
          /\ UNCHANGED sources
    /\ UNCHANGED <<processed, raw, started, latest, aux>>

\* process_research is over (it returned or raised): its frame is dropped
\* and the worker is free for the next request.
Finish(w) ==
    /\ pc[w] \in {"returned", "raised"}
    /\ pc' = [pc EXCEPT ![w] = "idle"]
    /\ frame' = [frame EXCEPT ![w] = InitFrame]
    /\ calls' = [calls EXCEPT ![w] = << >>]
    /\ UNCHANGED <<sources, processed, raw, started, latest, aux>>

\* Scheduling. The steps PerplexityDraft, CrossCheck, BuildOutput, Embed,
\* GenerateSummary and Finish touch nothing but the worker's own frame, so
\* they commute with every step of the other workers. A worker that has such
\* a step behind it runs on to its next step on the store or on a file
\* before another worker moves: another worker's step in between is the same
\* as that step taken before the local ones. The interleavings left are
\* those of the steps on the store and on the files.
Urgent == {"draft", "crosscheck", "write_final", "save",
           "summary", "final", "returned", "raised"}
Busy == \E w \in Workers : pc[w] \in Urgent

Next ==
    \/ \E w \in Workers :
        \/ PerplexityDraft(w)
        \/ CrossCheck(w)
        \/ WriteFinal(w)
        \/ SaveProcessed(w)
        \/ GenerateSummary(w)
        \/ MarkReady(w)
        \/ Finish(w)
    \/ /\ ~Busy
       /\ \E w \in Workers :
            \/ \E s \in Sources : Start(w, s)
            \/ LoadRequest(w)
            \/ ResearchClaude(w)
            \/ CheckResult(w)
            \/ HandleError(w)
            \/ BuildOutput(w)
            \/ StartEmbedding(w)
            \/ Embed(w)

Spec == Init /\ [][Next]_vars

\* ------------------------------------------------ the ingestion API at work
MaxAdded == 2
ProviderValues == {"claude", "perplexity", "openai"}

\* What a client puts in a field it gives.
FieldValue(field, provider) ==
    CASE field = "provider" -> provider
      [] field = "links" -> "https://a.com"
      [] OTHER -> "some " \o field

\* The keyword arguments of the add_*_source call an endpoint makes (lines
\* 89-94, 171-176, 255-261).
AddArgs(endpoint, data) ==
    CASE endpoint = "url" ->
            [url |-> data["url"], name |-> Get(data, "name", "None"),
             description |-> Get(data, "description", "")]
      [] endpoint = "text" ->
            [content |-> data["content"], name |-> data["name"],
             description |-> Get(data, "description", "")]
      [] endpoint = "research" ->
            [topic |-> data["topic"], description |-> data["description"],
             links |-> Get(data, "links", "[]"),
             provider |-> Get(data, "provider", "claude")]

\* The request file source_service.add_research_source stores for the
\* source it creates: the structured request {topic, description, links,
\* provider} that process_research loads later.
StoredRequest(args) ==
    [topic |-> args.topic, description |-> args.description,
     links |-> IF args.links = "[]" THEN << >> ELSE <<args.links>>,
     provider |-> args.provider]

\* A variant of Post: a research request whose provider is not one of the
\* two known names is answered 400 and creates nothing.
PostKnownProviders(endpoint) ==
    /\ Len(added) < MaxAdded
    /\ \E kind \in BodyKinds, outcome \in AddOutcomes :
        \E given \in IF kind = "object" THEN SUBSET Fields(endpoint) ELSE {{}} :
        \E provider \in IF "provider" \in given THEN ProviderValues ELSE {"claude"},
           blank \in SUBSET (given \cap Range(RequiredFields(endpoint))) :
        LET data == [f \in given |->
                        IF f \in blank THEN "" ELSE FieldValue(f, provider)]
            unknown == /\ endpoint = "research"
                       /\ Get(data, "provider", "claude") \notin {"claude", "perplexity"}
        IN \E got \in get_json(kind, data) :
            LET a == IF unknown /\ Answer(endpoint, got, outcome).called
                     THEN [status |-> 400, error |-> "Unknown provider",
                           called |-> FALSE]
                     ELSE Answer(endpoint, got, outcome)
                created == a.called /\ outcome = "created" IN
            /\ response' =
                  [endpoint |-> endpoint, status |-> a.status, error |-> a.error,
                   lacking |-> \/ kind # "object"
                               \/ Range(RequiredFields(endpoint)) \ given # {},
                   complete |-> /\ kind = "object"
                                /\ Range(RequiredFields(endpoint)) \subseteq given \ blank,
                   provider |-> IF kind = "object" /\ "provider" \in given
                                THEN provider ELSE "absent",
                   called |-> a.called]
            /\ added' = IF a.called
                        THEN Append(added, [endpoint |-> endpoint,
                                            args |-> AddArgs(endpoint, data)])
                        ELSE added
            /\ raw' = IF created /\ endpoint = "research" /\ Len(added) + 1 \in Sources
                      THEN [raw EXCEPT ![Len(added) + 1] =
                                StoredRequest(AddArgs(endpoint, data))]
                      ELSE raw
    /\ UNCHANGED <<environ, service, http, answer, settings>>
    /\ UNCHANGED <<sources, processed, pc, frame, calls, started, latest, scripts>>

\* POST .../sources/url, .../sources/text or .../sources/research with a
\* body of some kind; an object gives some of the endpoint's fields, some of
\* them as empty strings. The i-th source the API creates is source i of
\* the project; a research source gets its request file.
Post(endpoint) ==
    /\ Len(added) < MaxAdded
    /\ \E kind \in BodyKinds, outcome \in AddOutcomes :
        \E given \in IF kind = "object" THEN SUBSET Fields(endpoint) ELSE {{}} :
        \E provider \in IF "provider" \in given THEN ProviderValues ELSE {"claude"},
           blank \in SUBSET (given \cap Range(RequiredFields(endpoint))) :
        LET data == [f \in given |->
                        IF f \in blank THEN "" ELSE FieldValue(f, provider)]
        IN \E got \in get_json(kind, data) :
            LET a == Answer(endpoint, got, outcome)
                created == a.called /\ outcome = "created" IN
            /\ response' =
                  [endpoint |-> endpoint, status |-> a.status, error |-> a.error,
                   lacking |-> \/ kind # "object"
                               \/ Range(RequiredFields(endpoint)) \ given # {},
                   complete |-> /\ kind = "object"
                                /\ Range(RequiredFields(endpoint)) \subseteq given \ blank,
                   provider |-> IF kind = "object" /\ "provider" \in given
                                THEN provider ELSE "absent",
                   called |-> a.called]
            /\ added' = IF a.called
                        THEN Append(added, [endpoint |-> endpoint,
                                            args |-> AddArgs(endpoint, data)])
                        ELSE added
            /\ raw' = IF created /\ endpoint = "research" /\ Len(added) + 1 \in Sources
                      THEN [raw EXCEPT ![Len(added) + 1] =
                                StoredRequest(AddArgs(endpoint, data))]
                      ELSE raw
    /\ UNCHANGED <<environ, service, http, answer, settings>>
    /\ UNCHANGED <<sources, processed, pc, frame, calls, started, latest, scripts>>

add_url_source == Post("url")
add_text_source == Post("text")
add_research_source == Post("research")

ApiNext ==
    \/ add_url_source
    \/ add_text_source
    \/ add_research_source

\* The ingestion API on its own, with no research attempt running.
ApiInit == Init /\ raw = [s \in Sources |-> RequestOf("absent")]
ApiSpec == ApiInit /\ [][ApiNext]_vars

\* The research endpoint followed by the entry of process_research:
\* research sources are created through the API, and an attempt on one of
\* them is started, loads its request and is routed.
MaxIngested == 1
IngestNext ==
    \/ add_research_source
    \/ started < MaxIngested /\ \E w \in Workers, s \in Sources : Start(w, s)
    \/ \E w \in Workers : LoadRequest(w)

IngestSpec == ApiInit /\ [][IngestNext]_vars

\* ------------------------------------------------ the settings API at work
\* What a user types for a key, and the placeholder of the module's example
\* request (line 209).
Typed(key_id) ==
    CASE key_id = "ANTHROPIC_API_KEY" -> "sk-ant-api03-abcxyz"
      [] key_id = "PINECONE_API_KEY" -> "pcsk_4f2a9c"
      [] key_id = "PINECONE_INDEX_NAME" -> IndexDetails.index_name
      [] key_id = "PINECONE_REGION" -> IndexDetails.region
Placeholder == "***masked***"

\* GET /settings/api-keys (lines 134-186).
get_api_keys ==
    /\ form' = [loaded |-> TRUE, values |-> MaskedValues(env)]
    /\ UNCHANGED <<env, last_update, reply>>
    /\ UNCHANGED <<environ, service, http, answer, response, added>>
    /\ UNCHANGED <<pipeline, scripts>>

\* POST /settings/api-keys (lines 189-263) from a loaded form: each key is
\* posted with the value the form got, but for at most one key with a
\* typed value and one with the placeholder; a body without api_keys is
\* answered 400. Recorded of the keys posted as the form got them: which
\* they are, which were saved with set_key, and which changed value.
update_api_keys ==
    /\ form.loaded
    /\ \E has_keys \in BOOLEAN :
       \E typed \in AtMostOne(KeyIds) : \E placed \in AtMostOne(KeyIds \ typed) :
        LET posted == [k \in KeyIds |->
                        IF k \in typed THEN Typed(k)
                        ELSE IF k \in placed THEN Placeholder
                        ELSE form.values[k]]
            unchanged == KeyIds \ (typed \cup placed)
            set == {k \in KeyIds : Saves(posted[k])}
            after == [k \in KeyIds |-> IF k \in set THEN posted[k] ELSE env[k]]
        IN IF has_keys
           THEN /\ env' = after
                /\ last_update' =
                      [status |-> 200, saved |-> unchanged \cap set,
                       changed |-> {k \in unchanged : after[k] # env[k]}]
           ELSE /\ env' = env
                /\ last_update' = [status |-> 400, saved |-> {}, changed |-> {}]
    /\ UNCHANGED <<form, reply>>
    /\ UNCHANGED <<environ, service, http, answer, response, added>>
    /\ UNCHANGED <<pipeline, scripts>>

\* DELETE /settings/api-keys/<key_id> (lines 266-304).
delete_api_key(key_id) ==
    /\ env' = [k \in KeyIds |-> IF k \in Deleted(key_id) THEN NoneKey ELSE env[k]]
    /\ UNCHANGED <<form, last_update, reply>>
    /\ UNCHANGED <<environ, service, http, answer, response, added>>
    /\ UNCHANGED <<pipeline, scripts>>

\* _validate_key (lines 375-433): the validator of the key; for a valid
\* Pinecone key that comes with index details, the index name and the
\* region are saved. The other validators are taken to accept a typed key.
validate_key(key_id, value, out) ==
    IF key_id = "PINECONE_API_KEY"
    THEN [is_valid |-> out.is_valid, message |-> out.message,
          save |-> IF out.is_valid /\ Truthy(out.index_details)
                   THEN out.index_details ELSE None]
    ELSE IF key_id \in PineconeConfig
    THEN [is_valid |-> value # "", message |-> "Configuration accepted (auto-managed)",
          save |-> None]
    ELSE [is_valid |-> value # "", message |-> "Key provided", save |-> None]

\* POST /settings/api-keys/validate (lines 307-372): a masked value is
\* answered "Key already set" without validation.
validate_api_key(key_id) ==
    /\ \E value \in {Typed(key_id), Placeholder}, out \in PineconeOutcomes :
        IF StartsWith(value, "***")
        THEN /\ reply' = [status |-> 200, valid |-> TRUE, message |-> "Key already set"]
             /\ env' = env
        ELSE LET v == validate_key(key_id, value, out) IN
             /\ reply' = [status |-> 200, valid |-> v.is_valid, message |-> v.message]
             /\ env' = IF v.save = None THEN env
                       ELSE [env EXCEPT !["PINECONE_INDEX_NAME"] = v.save.index_name,
                                        !["PINECONE_REGION"] = v.save.region]
    /\ UNCHANGED <<form, last_update>>
    /\ UNCHANGED <<environ, service, http, answer, response, added>>
    /\ UNCHANGED <<pipeline, scripts>>

SettingsNext ==
    \/ get_api_keys
    \/ update_api_keys
    \/ \E k \in KeyIds : delete_api_key(k)
    \/ \E k \in KeyIds : validate_api_key(k)

\* The settings API on its own, with no research attempt running.
SettingsInit == Init /\ raw = [s \in Sources |-> RequestOf("absent")]
SettingsSpec == SettingsInit /\ [][SettingsNext]_vars

\* ------------------------------------------ the Perplexity service at work
MaxRequests == 2

\* The settings layer stores a key and reloads the environment.
SetEnvKey(k) ==
    /\ environ # k
    /\ environ' = k
    /\ UNCHANGED <<service, http, answer, response, added, settings>>
    /\ UNCHANGED <<pipeline, scripts>>

\* The key is deleted from the settings and the environment reloaded.
DeleteEnvKey ==
    /\ environ # NoneKey
    /\ environ' = NoneKey
    /\ UNCHANGED <<service, http, answer, response, added, settings>>
    /\ UNCHANGED <<pipeline, scripts>>

\* perplexity_service.research(topic, description, links) on the singleton
\* (line 246): the HTTP request is posted when _get_api_key gave a key.
Research(out) ==
    /\ http < MaxRequests
    /\ LET got == get_api_key(service, environ)
           done == ResearchHandlers(ResearchBody(got, out))
       IN /\ service' = got.self
          /\ http' = IF got.raises = "" THEN http + 1 ELSE http
          /\ answer' = [called |-> TRUE, absent |-> environ = NoneKey,
                        requested |-> got.raises = "",
                        raised |-> done.raises,
                        value |-> IF done.raises = "" THEN done.value ELSE None]
    /\ UNCHANGED <<environ, response, added, settings>>
    /\ UNCHANGED <<pipeline, scripts>>

ServiceNext ==
    \/ \E k \in EnvValues \ {NoneKey} : SetEnvKey(k)
    \/ DeleteEnvKey
    \/ \E out \in HttpOutcomes : Research(out)

\* The service on its own, with no research attempt running.
ServiceInit == Init /\ raw = [s \in Sources |-> RequestOf("absent")]
ServiceSpec == ServiceInit /\ [][ServiceNext]_vars

\* ------------------------------------------------ the start script at work
\* What the start script leaves alone.
NotLauncher == <<pipeline, environ, service, http, answer, response, added,
                 settings, validated>>

\* main moves on, or ends: "returned", "exit 1" (sys.exit(1)) or "crashed"
\* (an exception leaves main).
Goto(label) == launcher' = [launcher EXCEPT !.pc = label]
Ends(how) == launcher' = [launcher EXCEPT !.pc = "over", !.exit = how]

\* The positions of main inside its try block (lines 131-174).
TryBlock == {"start backend", "bind backend", "sleep", "start frontend",
             "bind frontend", "save_pids", "threads", "poll backend",
             "poll frontend", "loop sleep"}

\* Lines 125-129: check_venv and check_node_modules; sys.exit(1) when either
\* fails. Nothing was started.
CheckPrerequisites ==
    /\ launcher.pc = "checks"
    /\ \E ok \in BOOLEAN :
        IF ok THEN Goto("start backend") ELSE Ends("exit 1")
    /\ UNCHANGED NotLauncher

\* subprocess.Popen in start_backend or start_frontend (lines 72-79,
\* 95-102): the child is spawned, or Popen raises (the command is not
\* found, say), which main's "except Exception" answers with sys.exit(1)
\* (lines 187-189).
Spawn(c) ==
    /\ launcher.pc = "start " \o c
    /\ \/ launcher' = [launcher EXCEPT !.pc = "bind " \o c,
                                       !.child[c].state = "running"]
       \/ Ends("exit 1")
    /\ UNCHANGED NotLauncher

\* Lines 133, 135: the Popen object is assigned to main's local variable.
Bind(c) ==
    /\ launcher.pc = "bind " \o c
    /\ launcher' = [launcher EXCEPT
                        !.pc = IF c = "backend" THEN "sleep" ELSE "save_pids",
                        !.child[c].bound = TRUE]
    /\ UNCHANGED NotLauncher

\* Line 134: time.sleep(2).
Sleep ==
    /\ launcher.pc = "sleep"
    /\ Goto("start frontend")
    /\ UNCHANGED NotLauncher

\* Line 138 (save_pids, lines 106-111): the pid file is written; an
\* exception (the file cannot be written) goes to "except Exception".
SavePids ==
    /\ launcher.pc = "save_pids"
    /\ \/ launcher' = [launcher EXCEPT !.pc = "threads", !.pid_file = TRUE]
       \/ Ends("exit 1")
    /\ UNCHANGED NotLauncher

\* Lines 140-162: the banner is printed and the two output threads are
\* started.
StartThreads ==
    /\ launcher.pc = "threads"
    /\ Goto("poll backend")
    /\ UNCHANGED NotLauncher

\* The other child.
Other(c) == IF c = "backend" THEN "frontend" ELSE "backend"

\* Lines 166-173 (of the loop at 165-174): if the child has exited,
\* terminate the other child and leave the loop, after which main returns;
\* otherwise go on to the other child, then to the sleep.
Poll(c) ==
    /\ launcher.pc = "poll " \o c
    /\ IF launcher.child[c].state = "exited"
       THEN launcher' = [launcher EXCEPT !.pc = "over", !.exit = "returned",
                                         !.child[Other(c)].asked = TRUE]
       ELSE Goto(IF c = "backend" THEN "poll frontend" ELSE "loop sleep")
    /\ UNCHANGED NotLauncher

\* Line 174: time.sleep(1) at the end of a round of the loop.
LoopSleep ==
    /\ launcher.pc = "loop sleep"
    /\ Goto("poll backend")
    /\ UNCHANGED NotLauncher

\* Ctrl+C while main is in its try block: KeyboardInterrupt is raised
\* there and caught at line 176.
Interrupt ==
    /\ launcher.pc \in TryBlock
    /\ Goto("terminate backend")
    /\ UNCHANGED NotLauncher

\* Lines 178-179: backend_process.terminate(), frontend_process.terminate().
\* A variable that was never assigned raises UnboundLocalError, which
\* leaves main.
Terminate(c) ==
    /\ launcher.pc = "terminate " \o c
    /\ IF launcher.child[c].bound
       THEN launcher' = [launcher EXCEPT
                            !.pc = IF c = "backend" THEN "terminate frontend"
                                   ELSE "wait backend",
                            !.child[c].asked = TRUE]
       ELSE Ends("crashed")
    /\ UNCHANGED NotLauncher

\* Lines 182-183: wait(timeout=5) on each child; TimeoutExpired leaves
\* main when the child has not exited in time.
Wait(c) ==
    /\ launcher.pc = "wait " \o c
    /\ IF launcher.child[c].state = "exited"
       THEN IF c = "backend" THEN Goto("wait frontend") ELSE Ends("returned")
       ELSE Ends("crashed")
    /\ UNCHANGED NotLauncher

\* A running child exits, of its own or because it was asked to.
ChildExits(c) ==
    /\ launcher.child[c].state = "running"
    /\ launcher' = [launcher EXCEPT !.child[c].state = "exited"]
    /\ UNCHANGED NotLauncher

StartNext ==
    \/ CheckPrerequisites
    \/ Sleep
    \/ SavePids
    \/ StartThreads
    \/ LoopSleep
    \/ Interrupt
    \/ \E c \in Children :
        \/ Spawn(c)
        \/ Bind(c)
        \/ Poll(c)
        \/ Terminate(c)
        \/ Wait(c)
        \/ ChildExits(c)

\* start.py on its own, with no research attempt running.
StartInit == Init /\ raw = [s \in Sources |-> RequestOf("absent")]
StartSpec == StartInit /\ [][StartNext]_vars

\* --------------------------------------------- the Perplexity key validator
MaxValidations == 2

\* The keys validate_perplexity_key is given: None, the empty string, a key.
ValidatorKeys == {NoneKey, "", "pplx-1"}

\* str.lower(), on the letters the messages below have in upper case.
UpperCase == "IQRT"
LowerCase == "iqrt"
RECURSIVE lower(_)
lower(s) ==
    IF s = "" THEN ""
    ELSE LET c == SubSeq(s, 1, 1)
             at == {i \in 1..Len(UpperCase) : SubSeq(UpperCase, i, i) = c}
         IN (IF at = {} THEN c
             ELSE LET i == CHOOSE i \in at : TRUE IN SubSeq(LowerCase, i, i))
            \o lower(SubSeq(s, 2, Len(s)))

\* Python's "sub in s" on strings.
Contains(s, sub) ==
    \E i \in 1..(Len(s) - Len(sub) + 1) : SubSeq(s, i, i + Len(sub) - 1) = sub

\* What requests.post comes to (lines 44-49): a response with a status
\* code, or an exception: a timeout, a connection error, or another one.
ValidatorStatuses == {200, 401, 403, 429, 500}
OtherMessages == {"Invalid header value", "Quota exceeded", "Too high a Rate",
                  "boom"}
ValidatorOutcomes ==
    {[raises |-> "", msg |-> "", status_code |-> s] : s \in ValidatorStatuses}
    \cup {[raises |-> "Timeout", msg |-> "read timed out", status_code |-> 0],
          [raises |-> "ConnectionError", msg |-> MsgConnection, status_code |-> 0]}
    \cup {[raises |-> "Exception", msg |-> m, status_code |-> 0] : m \in OtherMessages}

\* What a call of validate_perplexity_key comes to: the pair it returns
\* (raises is "" then), and whether it posted a request.
Validated(is_valid, message, requested) ==
    [raises |-> "", is_valid |-> is_valid, message |-> message,
     requested |-> requested]

\* A variant of validate_perplexity_key: a rate-limited answer (429) is
\* treated as any other status.
validate_perplexity_key_429_invalid(api_key, out) ==
    IF api_key = NoneKey \/ api_key = ""
    THEN Validated(FALSE, "API key is empty", FALSE)
    ELSE IF out.raises = ""
    THEN CASE out.status_code = 200 -> Validated(TRUE, "Valid Perplexity API key", TRUE)
           [] out.status_code = 401 -> Validated(FALSE, "Invalid API key", TRUE)
           [] out.status_code = 403 ->
                Validated(FALSE, "API key does not have required permissions", TRUE)
           [] OTHER ->
                Validated(FALSE, "API returned status " \o ToString(out.status_code), TRUE)
    ELSE IF out.raises = "Timeout"
    THEN Validated(FALSE, "Request timed out - API may be down", TRUE)
    ELSE IF out.raises = "ConnectionError"
    THEN Validated(FALSE, "Connection error - check internet connection", TRUE)
    ELSE LET error_message == lower(out.msg) IN
         IF Contains(error_message, "invalid") \/ Contains(error_message, "unauthorized")
         THEN Validated(FALSE, "Invalid API key", TRUE)
         ELSE IF Contains(error_message, "quota") \/ Contains(error_message, "limit")
         THEN Validated(TRUE, "Valid API key (quota exceeded)", TRUE)
         ELSE IF Contains(error_message, "rate")
         THEN Validated(TRUE, "Valid API key (rate limited)", TRUE)
         ELSE Validated(FALSE, "Validation failed: "
                                 \o SubSeq(out.msg, 1, IF Len(out.msg) < 100
                                                       THEN Len(out.msg) ELSE 100),
                        TRUE)

\* validate_perplexity_key (lines 11-80): the empty-key test, then, in a
\* try block, the request and the reading of its status code; out is what
\* requests.post comes to if it is called.
validate_perplexity_key(api_key, out) ==
    IF api_key = NoneKey \/ api_key = ""
    THEN Validated(FALSE, "API key is empty", FALSE)
    ELSE IF out.raises = ""
    THEN CASE out.status_code = 200 -> Validated(TRUE, "Valid Perplexity API key", TRUE)
           [] out.status_code = 401 -> Validated(FALSE, "Invalid API key", TRUE)
           [] out.status_code = 429 -> Validated(TRUE, "Valid API key (rate limited)", TRUE)
           [] out.status_code = 403 ->
                Validated(FALSE, "API key does not have required permissions", TRUE)
           [] OTHER ->
                Validated(FALSE, "API returned status " \o ToString(out.status_code), TRUE)
    ELSE IF out.raises = "Timeout"
    THEN Validated(FALSE, "Request timed out - API may be down", TRUE)
    ELSE IF out.raises = "ConnectionError"
    THEN Validated(FALSE, "Connection error - check internet connection", TRUE)
    ELSE LET error_message == lower(out.msg) IN
         IF Contains(error_message, "invalid") \/ Contains(error_message, "unauthorized")
         THEN Validated(FALSE, "Invalid API key", TRUE)
         ELSE IF Contains(error_message, "quota") \/ Contains(error_message, "limit")
         THEN Validated(TRUE, "Valid API key (quota exceeded)", TRUE)
         ELSE IF Contains(error_message, "rate")
         THEN Validated(TRUE, "Valid API key (rate limited)", TRUE)
         ELSE Validated(FALSE, "Validation failed: "
                                 \o SubSeq(out.msg, 1, IF Len(out.msg) < 100
                                                       THEN Len(out.msg) ELSE 100),
                        TRUE)

\* One call of validate_perplexity_key: the key it was given, what the
\* request came to when one was posted, and what the call came to.
Validate ==
    /\ Len(validated) < MaxValidations
    /\ \E api_key \in ValidatorKeys, out \in ValidatorOutcomes :
        LET result == validate_perplexity_key(api_key, out) IN
        validated' = Append(validated,
                        [api_key |-> api_key,
                         status_code |-> IF result.requested THEN out.status_code ELSE 0,
                         raised |-> IF result.requested THEN out.raises ELSE "",
                         result |-> result])
    /\ UNCHANGED <<pipeline, environ, service, http, answer, response, added,
                   settings, launcher>>

ValidatorNext == Validate

\* The validator on its own, with no research attempt running.
ValidatorInit == Init /\ raw = [s \in Sources |-> RequestOf("absent")]
ValidatorSpec == ValidatorInit /\ [][ValidatorNext]_vars

\* ------------------------------------------------- reading the record
Entries(w) == {calls[w][i] : i \in 1..Len(calls[w])}
Did(w, op) == \E e \in Entries(w) : e.op = op
Src(w) == frame[w].source_id
Over(w) == pc[w] \in {"returned", "raised"}

\* The attempt of w had its source to itself: no other attempt on the source
\* was in flight when it started and none was started since.
Alone(w) == ~frame[w].concurrent /\ latest[Src(w)] = frame[w].attempt

TextKinds == {"empty", "text", "envelope"}
WriteOps == {"agent_write", "write_final", "save"}
UpdateOps == {"update_error", "update_embedding", "update_ready"}
IsWrite(e) == e.op \in WriteOps /\ e.out \in TextKinds
IsStatusWrite(e) == e.op \in UpdateOps /\ e.out = "ok"

\* The writes to the processed path and the status updates the attempt made.
Writes(w) == SelectSeq(calls[w], IsWrite)
StatusWrites(w) == SelectSeq(calls[w], IsStatusWrite)

\* The file system, a utility or the store raised during the attempt.
InfraOps == {"load", "write_final", "build", "save", "needs_embedding"} \cup UpdateOps
Faulted(w) == \E e \in Entries(w) : e.op \in InfraOps /\ e.out = "raised"

\* The research strategy failed: a provider raised or reported failure, the
\* final write failed, or the output file was missing or empty.
IsStrategyFailure(e) ==
    \/ e.op \in {"agent", "draft", "crosscheck"} /\ e.out # "ok"
    \/ e.op = "write_final" /\ e.out = "raised"
    \/ e.op = "check" /\ e.out \in {"no file", "empty"}
StrategyFailures(w) == {i \in 1..Len(calls[w]) : IsStrategyFailure(calls[w][i])}
StrategyFailed(w) == StrategyFailures(w) # {}
FirstFailure(w) ==
    calls[w][CHOOSE i \in StrategyFailures(w) : \A j \in StrategyFailures(w) : i <= j]

\* The message of a strategy failure: the exception's, the one the provider
\* gave, or the one the code has for the case.
FailureMessage(e) ==
    CASE e.op = "agent" /\ e.out = "raised" -> MsgAgentRaised
      [] e.op = "agent" /\ e.out = "" -> ErrResearchFailed
      [] e.op = "draft" /\ e.out = "" -> ErrPerplexityFailed
      [] e.op = "crosscheck" /\ e.out = "raised" -> MsgCrossCheckRaised
      [] e.op = "crosscheck" /\ e.out = "" -> ErrCrossCheckFailed
      [] e.op = "write_final" -> MsgWriteFailed
      [] e.op = "check" /\ e.out = "no file" -> ErrNoOutputFile
      [] e.op = "check" /\ e.out = "empty" -> ErrEmptyContent
      [] OTHER -> e.out

\* ------------------------------------------------------------- claims
\* C1: whatever fails during an attempt, no exception propagates to the
\* caller of process_research: the call returns a result dict.
C1_NoExceptionEscapes ==
    \A w \in Workers : pc[w] # "raised"

\* C2: whenever the research strategy fails, the attempt never calls the
\* embedding or the summary service and writes no other status; when it
\* returns it has issued exactly one update, status error with the failure
\* message and the processor's name, which is what the store then holds, and
\* it returns success=false with that message.
C2_StrategyFailurePersistsError ==
    \A w \in Workers : StrategyFailed(w) =>
        LET msg == FailureMessage(FirstFailure(w))
            s == Src(w)
        IN /\ pc[w] \in {"check", "handler", "returned", "raised"}
           /\ \A e \in Entries(w) :
                e.op \notin {"build", "save", "needs_embedding", "update_embedding",
                             "embed", "summary", "update_ready"}
           /\ pc[w] = "handler" => frame[w].e = msg
           /\ pc[w] = "returned" =>
                /\ StatusWrites(w) = <<Ev("update_error", "ok")>>
                /\ frame[w].result = [success |-> FALSE, error |-> msg]
                /\ sources[s].status = "error"
                /\ sources[s].processing_info =
                        [error |-> msg, processor |-> "research_processor"]
           /\ pc[w] = "raised" => Ev("update_error", "raised") \in Entries(w)

\* C2's case: an attempt whose agent reported success without output ended
\* with the error persisted.
C2_Witness ==
    \E w \in Workers :
        /\ pc[w] = "returned"
        /\ StrategyFailed(w)
        /\ FirstFailure(w) = Ev("check", "no file")
        /\ sources[Src(w)].processing_info.error = ErrNoOutputFile

DraftFailed(w) == \E e \in Entries(w) : e.op = "draft" /\ e.out # "ok"
DraftMessage(w) == CHOOSE m \in {e.out : e \in {x \in Entries(w) : x.op = "draft"}} : TRUE

\* C3: in the Perplexity branch, when the draft fails the cross-check is
\* never called, the attempt writes nothing to the processed path (a source
\* that had the attempt to itself keeps the file it had, or none), and the
\* attempt returns with status error carrying the draft stage's message.
C3_DraftFailureAborts ==
    \A w \in Workers : DraftFailed(w) =>
        LET s == Src(w) IN
        /\ pc[w] \in {"handler", "returned", "raised"}
        /\ ~Did(w, "crosscheck")
        /\ \A e \in Entries(w) : e.op \notin WriteOps
        /\ Alone(w) => processed[s] = frame[w].start_file
        /\ pc[w] = "handler" => frame[w].e = DraftMessage(w)
        /\ pc[w] = "returned" =>
            /\ frame[w].result = [success |-> FALSE, error |-> DraftMessage(w)]
            /\ sources[s].status = "error"
            /\ sources[s].processing_info.error = DraftMessage(w)

\* C3's case: a first attempt whose draft failed has returned, and the
\* source has no processed file.
C3_Witness ==
    \E w \in Workers :
        /\ DraftFailed(w)
        /\ pc[w] = "returned"
        /\ Alone(w)
        /\ frame[w].start_file = NoFile
        /\ processed[Src(w)] = NoFile
        /\ sources[Src(w)].status = "error"

CrossCheckFailed(w) ==
    /\ Ev("draft", "ok") \in Entries(w)
    /\ \E e \in Entries(w) : e.op = "crosscheck" /\ e.out # "ok"

\* C4: in the Perplexity branch, when the draft succeeds and the cross-check
\* fails, the attempt writes nothing to the processed path and returns with
\* status error; no processed file ever holds the draft content, and what
\* the branch writes is the cross-checked content.
C4_DraftNeverExposed ==
    /\ \A s \in Sources : \A i \in 1..Len(processed[s].text) :
            processed[s].text[i] # DraftText[1]
    /\ \A w \in Workers :
        /\ (pc[w] = "check" /\ frame[w].provider = "perplexity" /\ Alone(w)
                /\ Ev("write_final", "raised") \notin Entries(w)) =>
              processed[Src(w)] = FileOf(frame[w].crosscheck_result.content)
        /\ CrossCheckFailed(w) =>
            /\ pc[w] \in {"handler", "returned", "raised"}
            /\ \A e \in Entries(w) : e.op \notin WriteOps
            /\ Alone(w) => processed[Src(w)] = frame[w].start_file
            /\ pc[w] = "returned" =>
                /\ ~frame[w].result.success
                /\ sources[Src(w)].status = "error"

\* C4's case: the draft succeeded, the cross-check failed, the attempt has
\* returned with status error.
C4_Witness ==
    \E w \in Workers :
        /\ CrossCheckFailed(w)
        /\ pc[w] = "returned"
        /\ sources[Src(w)].status = "error"
        /\ sources[Src(w)].processing_info.error = ErrCrossCheckFailed

\* The Claude branch ran its happy path on a source that was uploaded: the
\* agent reported success and left non-empty content at the processed path.
ClaudeHappy(w) ==
    /\ frame[w].provider # "perplexity"
    /\ frame[w].start_status = "uploaded"
    /\ Ev("agent", "ok") \in Entries(w)
    /\ Ev("agent_write", "text") \in Entries(w)
    /\ Alone(w)
    /\ ~Faulted(w)

IsPrefix(a, b) == Len(a) <= Len(b) /\ a = SubSeq(b, 1, Len(a))

PerplexityHappy(w) ==
    /\ Ev("draft", "ok") \in Entries(w)
    /\ Ev("crosscheck", "ok") \in Entries(w)
    /\ Ev("write_final", "text") \in Entries(w)
    /\ Alone(w)
    /\ ~Faulted(w)

\* C6: when the Perplexity draft and the cross-check both succeed with final
\* content F, the processed file ends as an envelope whose body is F, the
\* source ends ready, and processing_info records iterations = 2 and
\* segments_written = 1.
C6_PerplexitySuccess ==
    \A w \in Workers : PerplexityHappy(w) =>
        LET s == Src(w) IN
        /\ pc[w] # "raised"
        /\ pc[w] # "handler"
        /\ pc[w] \in {"check", "build"} => processed[s] = FileOf(FinalText)
        /\ pc[w] \in {"embedding", "embed", "summary", "final", "returned"} =>
            /\ processed[s].exists
            /\ IsEnvelope(processed[s].text)
            /\ EnvelopeBody(processed[s].text) = FinalText
        /\ pc[w] = "returned" =>
            /\ frame[w].result = [success |-> TRUE, status |-> "ready"]
            /\ sources[s].status = "ready"
            /\ sources[s].processing_info.iterations = 2
            /\ sources[s].processing_info.segments_written = 1

\* C6's case: a Perplexity attempt whose two stages succeeded has returned
\* with the envelope of the final content on file.
C6_Witness ==
    \E w \in Workers :
        /\ PerplexityHappy(w)
        /\ pc[w] = "returned"
        /\ EnvelopeBody(processed[Src(w)].text) = FinalText
        /\ sources[Src(w)].status = "ready"

\* C7: in every reachable state a source whose status is ready is active
\* and has a non-empty processed file.
C7_ReadyImpliesActiveAndFile ==
    \A s \in Sources : sources[s].status = "ready" =>
        /\ sources[s].active
        /\ processed[s].exists
        /\ processed[s].text # EmptyText

\* C8: after any sequence of attempts and retries, a source that is active
\* has status ready.
C8_ActiveImpliesReady ==
    \A s \in Sources : sources[s].active => sources[s].status = "ready"

\* The attempt has written the source's status or its processed file.
Touched(w) == \E e \in Entries(w) : IsWrite(e) \/ IsStatusWrite(e)

\* C9: a request for a source that has an attempt in flight does not run
\* beside it: two executions on the same source that are both in flight
\* have never both written its status or its processed file.
C9_OneAttemptPerSource ==
    \A v, w \in Workers :
        (v # w /\ InFlight(v) /\ InFlight(w) /\ Src(v) = Src(w)) =>
            ~(Touched(v) /\ Touched(w))

\* C10: an attempt that returns success wrote the processed file exactly
\* once, and an attempt that returns failure did not write it at all.
C10_WrittenExactlyOnce ==
    \A w \in Workers : pc[w] = "returned" =>
        IF frame[w].result.success
        THEN Len(Writes(w)) = 1
        ELSE Len(Writes(w)) = 0

\* The attempt returned a failure: the except block persisted status error.
EndedInError(w) == pc[w] = "returned" /\ ~frame[w].result.success

\* The attempt started on a source that an earlier attempt had brought to
\* ready, with that attempt's enveloped text on file.
RetryOfReady(w) ==
    /\ frame[w].start_status = "ready"
    /\ frame[w].start_file.exists
    /\ IsEnvelope(frame[w].start_file.text)

\* C11: when an attempt on a source that holds the processed text of an
\* earlier successful attempt fails, ending in status error, the processed
\* file after the attempt is the file it found.
C11_FailureLeavesPriorText ==
    \A w \in Workers :
        (EndedInError(w) /\ Alone(w) /\ RetryOfReady(w)) =>
            processed[Src(w)] = frame[w].start_file

Terminal == {"ready", "error"}

\* C12: an attempt that was started leaves the source in status ready or
\* error; in particular, once process_research is over, by return or by
\* exception, an attempt that had set the status to embedding on a source
\* it had to itself has left it ready or error.
C12_AttemptEndsTerminal ==
    \A w \in Workers :
        (Over(w) /\ Alone(w) /\ Ev("update_embedding", "ok") \in Entries(w)) =>
            sources[Src(w)].status \in Terminal

\* The agent reported success and wrote nothing, or only empty content,
\* to the processed path during the attempt.
AgentWroteNothing(w) ==
    /\ Ev("agent", "ok") \in Entries(w)
    /\ Ev("agent_write", "text") \notin Entries(w)

\* C13: when the agent reports success but wrote no output, or empty
\* output, during the attempt, the attempt goes to the except block and
\* ends in status error, whatever file an earlier attempt left.
C13_NoOutputIsError ==
    \A w \in Workers : (AgentWroteNothing(w) /\ Alone(w)) =>
        /\ pc[w] \in {"check", "handler", "returned", "raised"}
        /\ pc[w] = "returned" => ~frame[w].result.success

\* The summary service raised or returned nothing during the attempt.
SummaryFailed(w) == Ev("summary", "none") \in Entries(w)

Last(seq) == seq[Len(seq)]

\* C14: when summary generation fails in an attempt whose research stage
\* succeeded, _generate_summary returns an empty dict and the attempt goes
\* on to the final update: it writes status ready and returns success.
C14_SummaryFailureNotFatal ==
    \A w \in Workers : SummaryFailed(w) =>
        /\ pc[w] \in {"final", "returned", "raised"}
        /\ pc[w] = "final" => frame[w].summary_info = EmptyDict
        /\ pc[w] = "returned" =>
            /\ frame[w].result = [success |-> TRUE, status |-> "ready"]
            /\ Last(StatusWrites(w)) = Ev("update_ready", "ok")
            /\ sources[Src(w)].status = "ready"
        /\ pc[w] = "raised" => Ev("update_ready", "raised") \in Entries(w)

\* C14's case: an attempt whose summary failed has returned success and
\* the source is ready.
C14_Witness ==
    \E w \in Workers :
        /\ SummaryFailed(w)
        /\ pc[w] = "returned"
        /\ frame[w].result.success
        /\ sources[Src(w)].status = "ready"

\* The embedding service raised during the attempt.
EmbeddingRaised(w) == Ev("embed", "raised") \in Entries(w)

\* C15: when the embedding service raises in an attempt whose research
\* stage succeeded, the attempt is not aborted: the embedding_info it
\* carries on has is_embedded false and the captured error in its reason,
\* the attempt returns success with the source ready, and that
\* embedding_info is the one persisted.
C15_EmbeddingErrorRecorded ==
    \A w \in Workers : EmbeddingRaised(w) =>
        /\ pc[w] \in {"summary", "final", "returned", "raised"}
        /\ pc[w] \in {"summary", "final"} =>
            /\ ~frame[w].embedding_info.is_embedded
            /\ frame[w].embedding_info.reason = <<"Embedding error: ", MsgEmbeddingRaised>>
        /\ pc[w] = "returned" =>
            /\ frame[w].result = [success |-> TRUE, status |-> "ready"]
            /\ sources[Src(w)].status = "ready"
            /\ ~sources[Src(w)].embedding_info.is_embedded
            /\ sources[Src(w)].embedding_info.reason =
                    <<"Embedding error: ", MsgEmbeddingRaised>>
        /\ pc[w] = "raised" => Ev("update_ready", "raised") \in Entries(w)

\* C15's case: an attempt whose embedding call raised has returned and the
\* source is ready, not embedded.
C15_Witness ==
    \E w \in Workers :
        /\ EmbeddingRaised(w)
        /\ pc[w] = "returned"
        /\ sources[Src(w)].status = "ready"
        /\ ~sources[Src(w)].embedding_info.is_embedded

\* The source has a persisted embedding_info.
HasEmbeddingInfo(s) == "is_embedded" \in DOMAIN sources[s].embedding_info

Precedes(w, P(_), Q(_)) ==
    \A j \in 1..Len(calls[w]) :
        Q(calls[w][j]) => \E i \in 1..(j - 1) : P(calls[w][i])

EmbeddingStatusSet(e) == e = Ev("update_embedding", "ok")
EmbeddingCalled(e) == e.op = "embed"

\* C17: the embedding service is called only after the attempt's update to
\* status embedding was completed: when the call is about to be made the
\* update is the last thing the attempt did, and on a source the attempt
\* has to itself the status is embedding.
C17_StatusBeforeEmbedding ==
    \A w \in Workers :
        /\ Precedes(w, EmbeddingStatusSet, EmbeddingCalled)
        /\ pc[w] = "embed" =>
            /\ Last(calls[w]) = Ev("update_embedding", "ok")
            /\ Alone(w) => sources[Src(w)].status = "embedding"

\* C17's case: the embedding service has been called in an attempt, after
\* the attempt set the status.
C17_Witness ==
    \E w \in Workers :
        /\ Did(w, "embed")
        /\ Ev("update_embedding", "ok") \in Entries(w)
        /\ pc[w] = "final"

StrategyReturned(e) ==
    \/ e = Ev("agent", "ok")
    \/ e.op = "write_final" /\ e.out \in TextKinds
EnvelopeSaved(e) == e = Ev("save", "envelope")
SaveTried(e) == e.op = "save"
EmbeddingStageEntered(e) == e.op \in {"needs_embedding", "update_embedding", "embed"}
EmbeddingStageReturned(e) ==
    \/ e.op = "embed"
    \/ e.op \in {"needs_embedding", "update_embedding"} /\ e.out = "raised"
SummaryCalled(e) == e.op = "summary"
ReadyWritten(e) == e.op = "update_ready"
Count(w, P(_)) == Cardinality({i \in 1..Len(calls[w]) : P(calls[w][i])})

\* C18: the stages of an attempt run in the order research, embedding,
\* summary, final update, each once: the envelope is saved after the
\* strategy returned, the embedding stage is entered after the envelope
\* was saved, the summary service is called after the embedding stage
\* returned, with that stage's embedding_info at hand, and status ready is
\* written after the summary service was called.
C18_StagesInOrder ==
    \A w \in Workers :
        /\ Precedes(w, StrategyReturned, SaveTried)
        /\ Precedes(w, EnvelopeSaved, EmbeddingStageEntered)
        /\ Precedes(w, EmbeddingStageReturned, SummaryCalled)
        /\ Precedes(w, SummaryCalled, ReadyWritten)
        /\ Count(w, EmbeddingCalled) <= 1
        /\ Count(w, SummaryCalled) <= 1
        /\ Count(w, ReadyWritten) <= 1
        /\ pc[w] = "summary" => "is_embedded" \in DOMAIN frame[w].embedding_info
        /\ pc[w] = "final" => frame[w].summary_info # None

\* C18's case: an attempt went through all four stages and returned.
C18_Witness ==
    \E w \in Workers :
        /\ pc[w] = "returned"
        /\ Count(w, EnvelopeSaved) = 1
        /\ Count(w, EmbeddingCalled) = 1
        /\ Count(w, SummaryCalled) = 1
        /\ Ev("update_ready", "ok") \in Entries(w)

\* The attempt returned success: it made the final update.
EndedReady(w) == pc[w] = "returned" /\ frame[w].result.success

\* The processed text was written by the strategy during the attempt.
TextFromThisAttempt(w) ==
    \E e \in Entries(w) :
        e.op \in {"agent_write", "write_final"} /\ e.out \in TextKinds

\* C19: an attempt on a source that is already ready, run alone to its
\* end, supersedes the earlier one: the processed text was written in this
\* attempt, processing_info and embedding_info are the ones this attempt
\* computed, and summary_info is this attempt's summary, absent when this
\* attempt generated none.
C19_RetrySupersedes ==
    \A w \in Workers :
        (EndedReady(w) /\ Alone(w) /\ frame[w].start_status = "ready") =>
            LET src == sources[Src(w)] IN
            /\ TextFromThisAttempt(w)
            /\ src.processing_info.iterations = frame[w].research_result.iterations
            /\ src.embedding_info.is_embedded = (Ev("embed", "embedded") \in Entries(w))
            /\ SummaryFailed(w) => src.summary_info = None
            /\ ~SummaryFailed(w) => "summary" \in DOMAIN src.summary_info

\* C20: after an attempt that reached ready while its summary generation
\* failed, the source has no summary_info, also when an earlier attempt
\* had stored one.
C20_FailedSummaryAbsent ==
    \A w \in Workers :
        (EndedReady(w) /\ SummaryFailed(w)) => sources[Src(w)].summary_info = None

\* The research stage of the attempt is executing: the strategy runs, the
\* final text is being written or the output is being read back.
ResearchStage == {"claude", "draft", "crosscheck", "write_final", "check"}

\* C21: while the research stage of a retry (an attempt started on a source
\* whose status was ready or error) is executing, the source no longer
\* shows a terminal status: the attempt has reset it on entering.
C21_RetryResetsStatus ==
    \A w \in Workers :
        (pc[w] \in ResearchStage /\ Alone(w) /\ frame[w].start_status \in Terminal)
            => sources[Src(w)].status \notin Terminal

\* C22: a call of research made while PERPLEXITY_API_KEY is absent from the
\* environment issues no HTTP request and returns the configuration error.
C22_AbsentKeyFailsFast ==
    (answer.called /\ answer.absent) =>
        /\ ~answer.requested
        /\ answer.raised = ""
        /\ answer.value = [success |-> FALSE, error |-> ErrNoApiKey]

\* What each branch does, as it shows in an attempt's record.
ClaudeOps == {"agent", "agent_write"}
PerplexityOps == {"draft", "crosscheck", "write_final"}
InClaudeBranch(w) ==
    pc[w] = "claude" \/ \E e \in Entries(w) : e.op \in ClaudeOps
InPerplexityBranch(w) ==
    pc[w] \in {"draft", "crosscheck", "write_final"}
        \/ \E e \in Entries(w) : e.op \in PerplexityOps

\* C23: an attempt that has loaded its request runs exactly one branch: the
\* Claude branch when the request has no provider field, the Perplexity
\* branch when the provider is perplexity; the services of the other branch
\* are never called.
C23_OneBranchByProvider ==
    \A w \in Workers : Ev("load", "ok") \in Entries(w) =>
        LET request == raw[Src(w)] IN
        /\ InClaudeBranch(w) # InPerplexityBranch(w)
        /\ "provider" \notin DOMAIN request =>
                InClaudeBranch(w) /\ ~InPerplexityBranch(w)
        /\ Get(request, "provider", "claude") = "perplexity" =>
                InPerplexityBranch(w) /\ ~InClaudeBranch(w)

\* C23's case: a request without provider went through the agent to the
\* end of its attempt, while a Perplexity request has been through the
\* draft and the cross-check.
C23_Witness ==
    \E v, w \in Workers :
        /\ Over(v) /\ pc[w] = "check"
        /\ "provider" \notin DOMAIN raw[Src(v)] /\ Did(v, "agent")
        /\ Get(raw[Src(w)], "provider", "claude") = "perplexity"
        /\ Did(w, "draft") /\ Did(w, "crosscheck")

\* The strategy reported success and the file read back was empty.
EmptyOutput(w) ==
    /\ Ev("check", "empty") \in Entries(w)
    /\ Get(frame[w].research_result, "success", FALSE)

\* The attempt is in its embedding stage, before the embedding service
\* returns.
InEmbeddingStage(w) == pc[w] \in {"embedding", "embed"}

\* C24: in either branch, a strategy that reports success over an empty
\* file is rejected with the message "Research agent wrote empty content":
\* the attempt persists status error with it, returns it, and never enters
\* the embedding stage. An attempt that enters the embedding stage holds a
\* non-empty content wrapped by the envelope builder, which was given the
\* metadata topic, link_count, character_count and token_count of that
\* content; the enveloped text is what the embedding stage receives.
C24_EmptyRejectedElseEnveloped ==
    \A w \in Workers :
        /\ EmptyOutput(w) =>
            /\ pc[w] \in {"handler", "returned", "raised"}
            /\ \A e \in Entries(w) :
                    e.op \notin {"build", "save", "needs_embedding",
                                 "update_embedding", "embed"}
            /\ pc[w] = "handler" => frame[w].e = "Research agent wrote empty content"
            /\ pc[w] = "returned" =>
                /\ frame[w].result =
                      [success |-> FALSE, error |-> "Research agent wrote empty content"]
                /\ sources[Src(w)].status = "error"
                /\ sources[Src(w)].processing_info.error =
                      "Research agent wrote empty content"
            /\ pc[w] = "raised" => Ev("update_error", "raised") \in Entries(w)
        /\ InEmbeddingStage(w) =>
            LET content == frame[w].research_content IN
            /\ content # EmptyText
            /\ frame[w].metadata =
                  [topic |-> Topic, link_count |-> Len(Links),
                   character_count |-> CharLen(content),
                   token_count |-> count_tokens(content)]
            /\ frame[w].processed_content =
                  <<"RESEARCH", SourceName(Src(w))>> \o content
            /\ Ev("save", "envelope") \in Entries(w)

\* C24's case: one attempt ended in error over an empty file, another is
\* about to call the embedding service on its enveloped text.
C24_Witness ==
    \E v, w \in Workers :
        /\ pc[v] = "returned" /\ EmptyOutput(v)
        /\ sources[Src(v)].processing_info.error = ErrEmptyContent
        /\ pc[w] = "embed" /\ IsEnvelope(frame[w].processed_content)

\* C24 as the spec words it: the failure message of an empty output is
\* "agent wrote empty content".
C24_SpecMessage ==
    \A w \in Workers :
        (EmptyOutput(w) /\ pc[w] = "returned") =>
            /\ frame[w].result.error = "agent wrote empty content"
            /\ sources[Src(w)].processing_info.error = "agent wrote empty content"

\* C25: a request that lacks a required field (no JSON body, or an object
\* without one of the endpoint's required fields) is answered with HTTP 400
\* and add_*_source is not called for it.
C25_MissingFieldIs400 ==
    response.lacking => response.status = 400 /\ ~response.called

\* C26: research never raises. Whatever the HTTP exchange comes to, it
\* returns a dict with a success flag; with success it carries a non-empty
\* content, citations and usage; without, a non-empty error string.
C26_ResearchNeverRaises ==
    answer.called =>
        /\ answer.raised = ""
        /\ "success" \in DOMAIN answer.value
        /\ answer.value.success =>
            /\ {"content", "citations", "usage"} \subseteq DOMAIN answer.value
            /\ answer.value.content # EmptyText
        /\ ~answer.value.success =>
            /\ "error" \in DOMAIN answer.value
            /\ answer.value.error # ""

\* C26's case: a request was posted and the connection failed; research
\* returned the failure as a dict.
C26_Witness ==
    /\ answer.called /\ answer.requested
    /\ answer.value = [success |-> FALSE, error |-> "Research failed: connection refused"]

\* C27: when the values loaded with GET /settings/api-keys are posted back
\* unchanged, no key posted with its masked or empty value is saved with
\* set_key, and each such key keeps the value it had.
C27_MaskedValuesNotSaved ==
    last_update.saved = {} /\ last_update.changed = {}

\* C28: the Pinecone index name and region are never set while the Pinecone
\* API key is absent.
C28_PineconeConfigFollowsKey ==
    ~IsSet(env["PINECONE_API_KEY"]) =>
        \A k \in PineconeConfig : ~IsSet(env[k])

DraftCalled(e) == e.op = "draft"
DraftSucceeded(e) == e = Ev("draft", "ok")
CrossCheckCalled(e) == e.op = "crosscheck"

\* C29: in an attempt the draft is called at most once, and exactly once
\* when the Perplexity branch is past its first step; the cross-check is
\* called at most once and only after the draft returned success; it is
\* given the content and the citations of that draft with the topic, the
\* description and the links of the request.
C29_CrossCheckAfterDraft ==
    \A w \in Workers :
        /\ Count(w, DraftCalled) <= 1
        /\ Count(w, CrossCheckCalled) <= 1
        /\ (InPerplexityBranch(w) /\ pc[w] # "draft") => Count(w, DraftCalled) = 1
        /\ Precedes(w, DraftSucceeded, CrossCheckCalled)
        /\ (Did(w, "crosscheck") /\ ~Over(w)) =>
            LET request == raw[Src(w)]
                draft == frame[w].perplexity_result
            IN frame[w].crosscheck_args =
                [draft_content |-> draft.content, citations |-> draft.citations,
                 topic |-> request.topic, description |-> request.description,
                 links |-> request.links]

\* C29's case: the cross-check was called with a draft whose citations are
\* not the request's links, and failed.
C29_Witness ==
    \E w \in Workers :
        /\ pc[w] = "handler"
        /\ Did(w, "crosscheck")
        /\ frame[w].crosscheck_args.citations = Citations
        /\ frame[w].crosscheck_args.citations # raw[Src(w)].links

\* C30: what process_research returns agrees with the last status update
\* it made: it returns success=true, status ready exactly when that update
\* set status ready, and success=false exactly when it set status error;
\* the update is the attempt's last step, so the store holds that status
\* when the call returns.
C30_ReturnAgreesWithStatus ==
    \A w \in Workers : pc[w] = "returned" =>
        LET result == frame[w].result
            status == sources[Src(w)].status
        IN /\ StatusWrites(w) # << >>
           /\ result.success <=>
                (Last(StatusWrites(w)) = Ev("update_ready", "ok") /\ status = "ready")
           /\ ~result.success <=>
                (Last(StatusWrites(w)) = Ev("update_error", "ok") /\ status = "error")
           /\ result.success => result.status = "ready"

\* C30's case: a retry on a source that was ready returned a failure.
C30_Witness ==
    \E w \in Workers :
        /\ pc[w] = "returned"
        /\ frame[w].start_status = "ready"
        /\ ~frame[w].result.success
        /\ sources[Src(w)].status = "error"

\* The status updates an attempt issued, completed or not, and the status
\* each one sets.
IsUpdate(e) == e.op \in UpdateOps
Updates(w) == SelectSeq(calls[w], IsUpdate)
TerminalOps == {"update_error", "update_ready"}
StatusOf(e) ==
    CASE e.op = "update_error" -> "error"
      [] e.op = "update_embedding" -> "embedding"
      [] e.op = "update_ready" -> "ready"

ResearchSucceeded(w) == Did(w, "check") /\ ~StrategyFailed(w)

\* What C32 says of an attempt: once its research stage succeeded it never
\* goes to the error handler and issues no update to status error, and an
\* update to status error is issued only by an attempt that has not set
\* status embedding.
NoErrorAfterResearch ==
    \A w \in Workers :
        /\ ResearchSucceeded(w) =>
            /\ pc[w] # "handler"
            /\ ~Did(w, "update_error")
        /\ Did(w, "update_error") => ~Did(w, "update_embedding")

\* What C32 says of a source: its status never goes from embedding to
\* error.
NoErrorFromEmbedding ==
    \A s \in Sources :
        sources[s].status = "embedding" => sources'[s].status # "error"

\* C32: once the research stage of an attempt has succeeded the attempt
\* never writes status error, so that a source moves to error only from
\* the research stage and never from status embedding.
C32_ErrorOnlyFromResearch ==
    []NoErrorAfterResearch /\ [][NoErrorFromEmbedding]_vars

\* A step changes the record or the processed text of source s only when
\* it is a step of an attempt for s.
KeyedBySource ==
    \A s \in Sources :
        (sources'[s] # sources[s] \/ processed'[s] # processed[s]) =>
            \E w \in Workers : pc'[w] # pc[w] /\ frame[w].source_id = s

\* C33: processing one source never changes another: every step of an
\* attempt leaves the record (status, active flag, info records) and the
\* processed text of every source but its own as they were.
C33_OtherSourcesUnchanged == [][KeyedBySource]_vars

\* C33's case: an attempt on one source ended in error while an attempt on
\* another source, whose agent has written its text, is in flight; that
\* source is still as uploaded.
C33_Witness ==
    \E v, w \in Workers :
        /\ pc[v] = "returned" /\ InFlight(w)
        /\ Src(v) # Src(w)
        /\ sources[Src(v)].status = "error"
        /\ Did(w, "agent_write")
        /\ sources[Src(w)] = NewSource
        /\ processed[Src(v)] = NoFile

\* The last request to the research endpoint had an object body with its
\* required fields, and add_research_source was called with the provider
\* the client gave, or "claude" when it gave none.
PassedThrough ==
    /\ response.called
    /\ response.status \in {201, 400, 500}
    /\ (response.status = 400 => response.error = "ValueError")
    /\ Last(added).endpoint = "research"
    /\ Last(added).args.provider =
          IF response.provider = "absent" THEN "claude" ELSE response.provider

\* An attempt that has loaded its request is in the Perplexity branch when
\* the provider is the exact string "perplexity", and with the Claude agent
\* for every other value.
RoutedByExactName(w) ==
    IF frame[w].provider = "perplexity" THEN pc[w] = "draft" ELSE pc[w] = "claude"

\* C34: a research request is not rejected for its provider value: the API
\* passes the value to add_research_source as given, and process_research
\* sends every value other than "perplexity" to the Claude agent.
C34_UnknownProviderGoesToClaude ==
    /\ response.endpoint = "research" /\ response.complete => PassedThrough
    /\ \A w \in Workers : InFlight(w) /\ pc[w] # "load" => RoutedByExactName(w)

\* C34's case: the API created a research source for a request whose
\* provider is "openai", and the attempt on that source is with the Claude
\* agent.
C34_Witness ==
    \E w \in Workers, i \in 1..Len(added) :
        /\ added[i].endpoint = "research"
        /\ added[i].args.provider = "openai"
        /\ i \in Sources /\ Get(raw[i], "provider", "claude") = "openai"
        /\ Src(w) = i
        /\ frame[w].provider = "openai"
        /\ pc[w] = "claude"
        /\ response.endpoint = "research" /\ response.provider = "openai"
        /\ response.status = 201

NeedsEmbeddingReturned(e) == e.op = "needs_embedding" /\ e.out \in NeedsEmbeddingVerdicts
EmbeddingStatusTried(e) == e.op = "update_embedding"
EmbeddingStartRaised(e) ==
    e.op \in {"needs_embedding", "update_embedding"} /\ e.out = "raised"
IsFallback(info) ==
    /\ "is_embedded" \in DOMAIN info
    /\ info.is_embedded = FALSE /\ info.token_count = 0 /\ info.chunk_count = 0

\* The attempt is past lines 200-206 of _process_embeddings.
EmbeddingStarted(w) == Did(w, "needs_embedding")

MainOver == launcher.pc = "over"
Started(c) == launcher.child[c].state # "none"
LeftRunning(c) == launcher.child[c].state = "running" /\ ~launcher.child[c].asked

\* C36: whenever main has ended after starting a child process, no child
\* it started is left running without having been asked to terminate.
C36_NoChildLeftRunning ==
    MainOver => \A c \in Children : ~LeftRunning(c)

ValidOutcome(v) == v.raised = "" /\ v.status_code \in {200, 429}
InvalidOutcome(v) ==
    \/ v.raised = "" /\ v.status_code \notin {200, 429}
    \/ v.raised \in {"Timeout", "ConnectionError"}

\* C37: every call of validate_perplexity_key returns a pair of a boolean
\* and a message: an empty key is invalid and no request is posted for it;
\* with a key, status 200 and 429 are valid, 401, 403 and every other
\* status invalid, and a timeout or a connection error invalid.
C37_ValidatorVerdicts ==
    \A i \in 1..Len(validated) :
        LET v == validated[i] IN
        /\ v.result.raises = ""
        /\ v.result.is_valid \in BOOLEAN
        /\ Len(v.result.message) > 0
        /\ v.api_key \in {NoneKey, ""} =>
                ~v.result.is_valid /\ ~v.result.requested
        /\ v.api_key \notin {NoneKey, ""} =>
            /\ v.result.requested
            /\ ValidOutcome(v) => v.result.is_valid
            /\ InvalidOutcome(v) => ~v.result.is_valid

\* C37's case: a key was validated against a rate-limited API and found
\* valid, and an empty key was rejected with no request posted.
C37_Witness ==
    \E i, j \in 1..Len(validated) :
        /\ validated[i].api_key = "pplx-1"
        /\ validated[i].status_code = 429
        /\ validated[i].result.is_valid
        /\ validated[j].api_key = ""
        /\ ~validated[j].result.requested
        /\ ~validated[j].result.is_valid
====
